---------------------------- MODULE Spec2Model ----------------------------
(***************************************************************************)
(* A model of the SPH fluid simulator of src/src/WaterSimulation.tsx       *)
(* (classes Vec2, SpatialHashGrid, FluidSimulator and the part of the      *)
(* WaterSimulation component that drives them).                            *)
(*                                                                         *)
(* Number representation.  The program computes in IEEE doubles; the model *)
(* computes in fixed point over TLC's 32-bit integers:                     *)
(*   position      1/PosScale px   (PosScale = 1/DT, so pos += vel*DT is   *)
(*                                  exactly pos += vel)                    *)
(*   velocity      px/s                                                    *)
(*   acceleration  px/s^2, saturated at +-AccLimit per component           *)
(*   time          ticks of DT = 1/60 s                                    *)
(*   angle         centiradians; Sin, Cos in thousandths                   *)
(*   Math.random() rng / RandMod, rng the state of an additive generator   *)
(*                 seeded nondeterministically at construction             *)
(*   lifespan      1/RandMod steps (60 + Math.random()*60 is exact)        *)
(*   alpha         1/10000                                                 *)
(*   intensity, strength   thousandths                                     *)
(*   density       1e-6 of the program's unit; pressure in program units   *)
(***************************************************************************)
EXTENDS Integers, Sequences, FiniteSets, TLC

----------------------------------------------------------------------------
(* Program constants (class FluidSimulator, lines 94-130).                 *)

GRAVITY_Y == 320
REST_DENSITY == 1000
GAS_CONSTANT == 2500
H == 18
H2 == H * H
MassTenths == 28
VISCOSITY == 180
TicksPerSecond == 60
DampingMilli == 985
BounceTenths == 4
SurfaceTensionCenti == 12
numWaves == 7
mouseForceRadius == 100
mouseForceStrength == 12000
maxVel == 500
margin == 5
WaveCapacity == 20
WaveHorizonSeconds == 3

(* Scales of the fixed-point representation.                               *)
PosScale == TicksPerSecond
RandMod == 32 * 32
AccLimit == TicksPerSecond * maxVel
PiCenti == 157 * 2
MILLI == 10 * 100

----------------------------------------------------------------------------
(* Integer helpers standing for the double arithmetic.                     *)

Abs(a) == IF a < 0 THEN -a ELSE a

Max(a, b) == IF a >= b THEN a ELSE b

Min(a, b) == IF a <= b THEN a ELSE b

(* Division rounding toward zero, b > 0.                                   *)
TDiv(a, b) == IF a >= 0 THEN a \div b ELSE -((-a) \div b)

Saturate(a, lim) == Max(-lim, Min(lim, a))

(* One binary digit of a square root: base with the digit bit set if the   *)
(* square stays at most n (and within 32 bits).                            *)
SqrtBit(n, base, bit) ==
    IF base + bit <= 46340 /\ (base + bit) * (base + bit) <= n THEN base + bit ELSE base

SqrtByte(n, base, unit) ==
    SqrtBit(n, SqrtBit(n, SqrtBit(n, SqrtBit(n, base, 8 * unit), 4 * unit), 2 * unit), unit)

(* Math.sqrt, rounded down: the largest s with s*s <= n, found one binary  *)
(* digit at a time from the top.                                           *)
ISqrt(n) ==
    IF n <= 0 THEN 0
    ELSE IF n < 256 * 256 THEN SqrtByte(n, SqrtByte(n, 0, 16), 1)
    ELSE IF n < 4096 * 4096 THEN SqrtByte(n, SqrtByte(n, SqrtByte(n, 0, 256), 16), 1)
    ELSE SqrtByte(n, SqrtByte(n, SqrtByte(n, SqrtByte(n, 0, 4096), 256), 16), 1)

(* Math.sqrt, rounded up.                                                  *)
ISqrtUp(n) == LET s == ISqrt(n) IN IF s * s = n THEN s ELSE s + 1

(* Math.sin of an angle in centiradians, in thousandths (Bhaskara's        *)
(* rational approximation on each half period).                            *)
SinHalf(x) == (16 * x * (PiCenti - x) * MILLI)
                 \div (5 * PiCenti * PiCenti - 4 * x * (PiCenti - x))

Sin(a) ==
    LET x == a % (2 * PiCenti)
    IN  IF x <= PiCenti THEN SinHalf(x) ELSE -SinHalf(x - PiCenti)

Cos(a) == Sin(a + PiCenti \div 2)

(* Math.exp(-waveAge * 1.5) for waveAge = k ticks, in 1/100000: the        *)
(* product of the factors exp(-0.025 * 2^i) of the binary digits of k.      *)
ExpFactor(i) ==
    CASE i = 0 -> 97531 [] i = 1 -> 95123 [] i = 2 -> 90484 [] i = 3 -> 81873
      [] i = 4 -> 67032 [] i = 5 -> 44933 [] i = 6 -> 20190 [] OTHER -> 4076

ExpBit(k, i, acc) ==
    IF (k \div (2 ^ i)) % 2 = 1 THEN ((acc \div 10) * ExpFactor(i)) \div 10000 ELSE acc

ExpDecay(k) ==
    ExpBit(k, 7, ExpBit(k, 6, ExpBit(k, 5, ExpBit(k, 4,
        ExpBit(k, 3, ExpBit(k, 2, ExpBit(k, 1, ExpBit(k, 0, 100000))))))))

----------------------------------------------------------------------------
(* class Vec2                                                              *)

Vec2(x, y) == [x |-> x, y |-> y]

VAdd(u, v) == Vec2(u.x + v.x, u.y + v.y)

VSub(u, v) == Vec2(u.x - v.x, u.y - v.y)

LengthSq(v) == v.x * v.x + v.y * v.y

Length(v) == ISqrt(LengthSq(v))

----------------------------------------------------------------------------
(* Math.random(): an additive (Weyl) generator of full period; the value   *)
(* of a call is the state it leaves.  Draws(s, n) is the state after n     *)
(* calls.                                                                  *)

Draws(s, n) == (s + n * 633) % RandMod

NextRng(s) == Draws(s, 1)

(* A sequence with its elements evaluated.                                 *)
Materialize(seq) == seq \o << >>


(* Vec2.length of a vector whose square may overflow: taken on the vector  *)
(* scaled down by 64.                                                      *)
SafeLength(v) ==
    IF Abs(v.x) > AccLimit \/ Abs(v.y) > AccLimit
    THEN 64 * Length(Vec2(TDiv(v.x, 64), TDiv(v.y, 64)))
    ELSE Length(v)

(* v.length() > d and v.length() < d, decided on the squares (exact).      *)
LongerThan(v, d) == Abs(v.x) > d \/ Abs(v.y) > d \/ LengthSq(v) > d * d

ShorterThan(v, d) == Abs(v.x) < d /\ Abs(v.y) < d /\ LengthSq(v) < d * d

----------------------------------------------------------------------------
(* The state.  sim is the FluidSimulator object (lines 111-130); the       *)
(* particle field id and sim.nextId are history: they name a particle, the *)
(* field seen counts the step() calls a particle has been through.         *)
(* removed records every particle that left the collection and the         *)
(* operation that dropped it, lastOp the operation that ran last, fuel the *)
(* calls the environment may still make in the scenario, nearby the last   *)
(* call of getNearby and what it returned, kernel the last evaluation of a *)
(* kernel function and its value, view the WaterSimulation component that  *)
(* drives the simulator: the animation frames requested and not yet run or *)
(* cancelled, animationRef, whether its listeners are registered, and the  *)
(* particles it rendered last.                                             *)

VARIABLES sim, removed, lastOp, fuel, nearby, kernel, view

vars == <<sim, removed, lastOp, fuel, nearby, kernel, view>>

----------------------------------------------------------------------------
(* addParticle, lines 177-194.  A splash particle draws its size and then  *)
(* its lifespan; lifespan is kept as a numerator over RandMod.             *)

addParticle(s, x, y, vel, isSplash) ==
    LET r1 == IF isSplash THEN NextRng(s.rng) ELSE s.rng
        r2 == IF isSplash THEN NextRng(r1) ELSE s.rng
        particle ==
          [ id          |-> s.nextId,
            seen        |-> 0,
            pos         |-> Vec2(x, y),
            vel         |-> vel,
            acc         |-> Vec2(0, 0),
            prevPos     |-> Vec2(x, y),
            density     |-> REST_DENSITY * MILLI * MILLI,
            pressure    |-> 0,
            mass        |-> MassTenths,
            restDensity |-> REST_DENSITY,
            size        |-> IF isSplash THEN 300 + (r1 * 300) \div RandMod ELSE 500,
            a           |-> IF isSplash THEN 6000 ELSE 8500,
            age         |-> 0,
            lifespan    |-> IF isSplash THEN 60 * RandMod + 60 * r2 ELSE -RandMod,
            isSplash    |-> isSplash ]
    IN  [s EXCEPT !.particles = Append(@, particle),
                  !.rng = r2,
                  !.nextId = @ + 1]

(* addWaveOrigin without the eviction, and with pop() for shift().         *)
addWaveOriginUnbounded(s, x, y, strength) ==
    [s EXCEPT !.waveOrigins =
        Append(@, [x |-> x, y |-> y, strength |-> strength, time |-> s.time])]

addWaveOriginPop(s, x, y, strength) ==
    LET pushed == Append(s.waveOrigins,
                         [x |-> x, y |-> y, strength |-> strength, time |-> s.time])
    IN  [s EXCEPT !.waveOrigins =
                     IF Len(pushed) > WaveCapacity
                     THEN SubSeq(pushed, 1, Len(pushed) - 1) ELSE pushed]

(* addWaveOrigin, lines 347-353.                                           *)
addWaveOrigin(s, x, y, strength) ==
    LET pushed == Append(s.waveOrigins,
                         [x |-> x, y |-> y, strength |-> strength, time |-> s.time])
    IN  [s EXCEPT !.waveOrigins =
                     IF Len(pushed) > WaveCapacity THEN Tail(pushed) ELSE pushed]

(* The count of primary particles rounded up.                              *)
NumPrimaryRoundedUp(intensity) == (12 * MILLI + intensity * 18 + MILLI - 1) \div MILLI

(* The particle counts of createSplash, lines 199 and 214.                 *)
NumPrimary(intensity) == (12 * MILLI + intensity * 18) \div MILLI

NumDroplets(intensity) == (6 * MILLI + intensity * 8) \div MILLI

(* One pass of the primary loop, lines 200-211: the draws are the angle,   *)
(* the speed, the x offset, and addParticle's two.                         *)
SplashPrimary(s, x, y, intensity) ==
    LET ra == NextRng(s.rng)
        rs == NextRng(ra)
        rx == NextRng(rs)
        angle == -(PiCenti \div 2) + ((2 * ra - RandMod) * 6 * PiCenti) \div (20 * RandMod)
        speed == TDiv((200 * RandMod + rs * 300) * intensity, RandMod * MILLI)
        vel == Vec2(TDiv(Cos(angle) * speed * 6, 10 * MILLI),
                    TDiv(Sin(angle) * speed, MILLI) - 150)
        px == x + TDiv((2 * rx - RandMod) * 15 * PosScale, 2 * RandMod)
    IN  addParticle([s EXCEPT !.rng = rx], px, y - 5 * PosScale, vel, TRUE)

(* One pass of the droplet loop, lines 215-223.                            *)
SplashDroplet(s, x, y, intensity) ==
    LET ra == NextRng(s.rng)
        rs == NextRng(ra)
        rx == NextRng(rs)
        angle == (ra * 2 * PiCenti) \div RandMod
        speed == TDiv((80 * RandMod + rs * 150) * intensity, RandMod * MILLI)
        vel == Vec2(TDiv(Cos(angle) * speed, MILLI),
                    -TDiv(Abs(Sin(angle)) * speed * 12, 10 * MILLI) - 50)
        px == x + TDiv((2 * rx - RandMod) * 20 * PosScale, 2 * RandMod)
    IN  addParticle([s EXCEPT !.rng = rx], px, y, vel, TRUE)

(* The loops of lines 200 and 215, n passes: the loops of the model run by *)
(* halves, and the first half is evaluated, as t, before the second half   *)
(* starts.                                                                 *)
RECURSIVE SplashPrimaries(_, _, _, _, _)
SplashPrimaries(s, x, y, intensity, n) ==
    IF n <= 0 THEN s
    ELSE IF n = 1 THEN SplashPrimary(s, x, y, intensity)
    ELSE CHOOSE u \in {SplashPrimaries(t, x, y, intensity, n - n \div 2) :
                          t \in {SplashPrimaries(s, x, y, intensity, n \div 2)}} : TRUE

RECURSIVE SplashDroplets(_, _, _, _, _)
SplashDroplets(s, x, y, intensity, n) ==
    IF n <= 0 THEN s
    ELSE IF n = 1 THEN SplashDroplet(s, x, y, intensity)
    ELSE CHOOSE u \in {SplashDroplets(t, x, y, intensity, n - n \div 2) :
                          t \in {SplashDroplets(s, x, y, intensity, n \div 2)}} : TRUE

(* createSplash, lines 197-227.                                            *)
createSplash(s, x, y, intensity) ==
    addWaveOrigin(
        SplashDroplets(SplashPrimaries(s, x, y, intensity, NumPrimary(intensity)),
                       x, y, intensity, NumDroplets(intensity)),
        x, y, intensity * 2)


(* The kick given to every particle that is not at the centre, whatever    *)
(* its distance.                                                           *)
RippleKickAnywhere(p, x, y, strength) ==
    LET radius == (80 * PosScale * strength) \div MILLI
        dx == p.pos.x - x
        dy == p.pos.y - y
        d2 == dx * dx + dy * dy
        dist == ISqrt(d2)
        fm == MILLI - (dist * MILLI) \div radius
        factor == (((fm * fm) \div MILLI) * strength * 3) \div (10 * MILLI)
    IN  IF d2 > (PosScale \div 10) * (PosScale \div 10)
        THEN [p EXCEPT !.vel = Vec2(p.vel.x + TDiv(dx * factor, dist),
                                    p.vel.y + TDiv(dy * factor * 4, 10 * dist)
                                            - factor \div 2)]
        ELSE p

(* One particle of createRipple's loop, lines 234-243.  The comparisons of *)
(* dist are made on its square, which is exact.                            *)
RippleKick(p, x, y, strength) ==
    LET radius == (80 * PosScale * strength) \div MILLI
        dx == p.pos.x - x
        dy == p.pos.y - y
        d2 == dx * dx + dy * dy
        dist == ISqrt(d2)
        fm == MILLI - (dist * MILLI) \div radius
        factor == (((fm * fm) \div MILLI) * strength * 3) \div (10 * MILLI)
    IN  IF Abs(dx) < radius /\ Abs(dy) < radius
           /\ d2 < radius * radius /\ d2 > (PosScale \div 10) * (PosScale \div 10)
        THEN [p EXCEPT !.vel = Vec2(p.vel.x + TDiv(dx * factor, dist),
                                    p.vel.y + TDiv(dy * factor * 4, 10 * dist)
                                            - factor \div 2)]
        ELSE p

(* createRipple, lines 230-247.                                            *)
createRipple(s, x, y, strength) ==
    addWaveOrigin(
        [s EXCEPT !.particles =
            Materialize([i \in DOMAIN s.particles |->
                            RippleKick(s.particles[i], x, y, strength)])],
        x, y, strength)

(* setMousePos, lines 250-254.  (mousePos - prevMousePos) * (1/DT) in px/s *)
(* is the difference of the positions in 1/PosScale px.                    *)
setMousePos(s, x, y) ==
    [s EXCEPT !.prevMousePos = s.mousePos,
              !.mousePos = Vec2(x, y),
              !.mouseVel = VSub(Vec2(x, y), s.mousePos)]

(* setMouseDown with the splash on release as on press.                    *)
setMouseDownSplashing(s, down) ==
    LET s1 == [s EXCEPT !.isMouseDown = down]
    IN  createSplash(s1, s1.mousePos.x, s1.mousePos.y, 800)

(* setMouseDown, lines 256-261.                                            *)
setMouseDown(s, down) ==
    LET s1 == [s EXCEPT !.isMouseDown = down]
    IN  IF down THEN createSplash(s1, s1.mousePos.x, s1.mousePos.y, 800) ELSE s1

(* The number of turns with the last, partial spacing left out.            *)
TurnsRoundedDown(extent, spacing) == IF extent <= 0 THEN 0 ELSE extent \div spacing

(* The number of turns of a loop for (v = a; v < a + extent; v += spacing). *)
Turns(extent, spacing) == IF extent <= 0 THEN 0 ELSE (extent + spacing - 1) \div spacing

(* The body of createWaterBlock's loops, lines 170-172, at i and j; the    *)
(* particle draws its x jitter and then its y jitter.                      *)
WaterParticle(s, i, j) ==
    LET rx == NextRng(s.rng)
        ry == NextRng(rx)
    IN  addParticle([s EXCEPT !.rng = ry],
                    i + (rx * 2 * PosScale) \div RandMod,
                    j + (ry * 2 * PosScale) \div RandMod,
                    Vec2(0, 0), FALSE)

(* The passes lo to hi of createWaterBlock's loops, the outer over i, the  *)
(* inner over j: pass k is column k \div rows, row k % rows.               *)
RECURSIVE WaterParticles(_, _, _, _, _, _, _)
WaterParticles(s, x, y, rows, spacing, lo, hi) ==
    IF lo > hi THEN s
    ELSE IF lo = hi
         THEN WaterParticle(s, x + (lo \div rows) * spacing, y + (lo % rows) * spacing)
    ELSE CHOOSE u \in {WaterParticles(t, x, y, rows, spacing, (lo + hi) \div 2 + 1, hi) :
                          t \in {WaterParticles(s, x, y, rows, spacing, lo, (lo + hi) \div 2)}} :
                    TRUE

(* createWaterBlock, lines 168-174.                                        *)
createWaterBlock(s, x, y, w, h, spacing) ==
    WaterParticles(s, x, y, Turns(h, spacing), spacing,
                   0, Turns(w, spacing) * Turns(h, spacing) - 1)

(* resize that empties the particle collection as well.                    *)
resizeClearing(s, width, height) ==
    [s EXCEPT !.width = width, !.height = height, !.particles = << >>]

(* resize, lines 526-529.                                                  *)
resize(s, width, height) == [s EXCEPT !.width = width, !.height = height]

(* initializeWater of the component, lines 545-552.                        *)
initializeWater(s, width, height) ==
    LET waterHeight == (height * 35) \div 100
        waterTop == height - waterHeight
    IN  createWaterBlock([s EXCEPT !.particles = <<>>],
                         10 * PosScale, waterTop, width - 20 * PosScale,
                         waterHeight - 10 * PosScale, 10 * PosScale)

(* updateSize of the component, lines 658-671, once the simulator exists.  *)
updateSize(s, width, height) == initializeWater(resize(s, width, height), width, height)

----------------------------------------------------------------------------
(* class SpatialHashGrid, lines 43-87.  A grid is a function from the cell *)
(* keys present to the sequence of particle references (ids) of the cell.  *)

cellSize == H * PosScale

hash(x, y) == <<x \div cellSize, y \div cellSize>>

(* clear that leaves the buckets as they are.                              *)
clearNothing(grid) == grid

clear(grid) == << >>

insert(grid, particle) ==
    LET key == hash(particle.pos.x, particle.pos.y)
    IN  [k \in DOMAIN grid \cup {key} |->
            IF k = key
            THEN Append(IF key \in DOMAIN grid THEN grid[key] ELSE << >>, particle.id)
            ELSE grid[k]]

(* The cell radius rounded down.                                           *)
CellRadiusRoundedDown(radius) == radius \div cellSize

(* Math.ceil(radius / cellSize)                                            *)
CellRadius(radius) == (radius + cellSize - 1) \div cellSize

RECURSIVE NearbyCells(_, _, _, _, _, _)
NearbyCells(grid, cx, cy, cr, dx, dy) ==
    IF dx > cr THEN << >>
    ELSE IF dy > cr THEN NearbyCells(grid, cx, cy, cr, dx + 1, -cr)
    ELSE LET key == <<cx + dx, cy + dy>>
         IN  (IF key \in DOMAIN grid THEN grid[key] ELSE << >>)
               \o NearbyCells(grid, cx, cy, cr, dx, dy + 1)

getNearby(grid, pos, radius) ==
    LET cr == CellRadius(radius)
        c == hash(pos.x, pos.y)
    IN  NearbyCells(grid, c[1], c[2], cr, -cr, -cr)

(* The loop of lines 514-516 over the particles lo to hi of ps.            *)
RECURSIVE InsertAll(_, _, _, _)
InsertAll(grid, ps, lo, hi) ==
    IF lo > hi THEN grid
    ELSE IF lo = hi THEN insert(grid, ps[lo])
    ELSE CHOOSE u \in {InsertAll(t, ps, (lo + hi) \div 2 + 1, hi) :
                          t \in {InsertAll(grid, ps, lo, (lo + hi) \div 2)}} : TRUE

(* The rebuild at the head of step, lines 513-516.                         *)
RebuildGrid(s) ==
    [s EXCEPT !.spatialGrid = InsertAll(clear(s.spatialGrid), s.particles, 1, Len(s.particles))]


----------------------------------------------------------------------------
(* The SPH kernels, lines 149-165.  Each returns its value in units of its *)
(* precomputed coefficient (POLY6, |SPIKY_GRAD|, VISC_LAP, lines 138-140,  *)
(* all positive), so the value is an exact integer.  poly6Kernel takes r2  *)
(* in px^2; spikyGradient and viscosityLaplacian take r in 1/PosScale px.  *)

(* poly6Kernel without the cut at H2.                                      *)
poly6KernelUncut(r2) == LET diff == H2 - r2 IN diff * diff * diff

poly6Kernel(r2) ==
    IF r2 >= H2 THEN 0
    ELSE LET diff == H2 - r2 IN diff * diff * diff

spikyGradient(r, rVec) ==
    IF r >= cellSize \/ r * 10000 < PosScale THEN Vec2(0, 0)
    ELSE LET diff == cellSize - r
         IN  Vec2(-TDiv(diff * diff * rVec.x, r), -TDiv(diff * diff * rVec.y, r))

viscosityLaplacian(r) == IF r >= cellSize THEN 0 ELSE cellSize - r

(* POLY6 * w in 1e-8, POLY6 = 315 / (64 pi H^9) = 7.898e-12.               *)
Poly6Scaled(w) == ((w \div 1000) * 7898) \div 10000

(* a * b, saturated at +-lim.                                              *)
SatMul(a, b, lim) ==
    IF a = 0 \/ b = 0 THEN 0
    ELSE IF Abs(a) > lim \div Abs(b)
         THEN (IF (a < 0) = (b < 0) THEN lim ELSE -lim)
         ELSE a * b

ForceLimit == 1500 * MILLI

IntLimit == 2000 * MILLI * MILLI

(* Where the particles that a grid refers to are: for every id, the index  *)
(* in ps of the particle of that id, 0 if ps holds none.                   *)
IndexOf(ps) ==
    Materialize([id \in 1..(IF ps = << >> THEN 0 ELSE ps[Len(ps)].id) |->
                    IF \E i \in DOMAIN ps : ps[i].id = id
                    THEN CHOOSE i \in DOMAIN ps : ps[i].id = id
                    ELSE 0])

(* The contribution of the neighbour with nothing from the particle       *)
(* itself.                                                                 *)
DensityTermOfOthers(pi, pj) ==
    LET rVec == VSub(pj.pos, pi.pos)
        r2 == LengthSq(rVec) \div (PosScale * PosScale)
    IN  IF pi.id = pj.id THEN 0 ELSE pj.mass * Poly6Scaled(poly6Kernel(r2))

(* The contribution of the neighbour pj to the density of pi, lines        *)
(* 269-272, in 1e-9 program units: mass is in tenths and the kernel in     *)
(* 1e-8.                                                                   *)
DensityTerm(pi, pj) ==
    LET rVec == VSub(pj.pos, pi.pos)
        r2 == LengthSq(rVec) \div (PosScale * PosScale)
    IN  pj.mass * Poly6Scaled(poly6Kernel(r2))

(* The neighbour loop of lines 269-273 over neighbors[lo..hi]; at says     *)
(* where in ps the particle of an id is.                                   *)
RECURSIVE DensitySum(_, _, _, _, _, _)
DensitySum(ps, at, pi, neighbors, lo, hi) ==
    IF lo > hi THEN 0
    ELSE IF lo = hi THEN DensityTerm(pi, ps[at[neighbors[lo]]])
    ELSE DensitySum(ps, at, pi, neighbors, lo, (lo + hi) \div 2)
           + DensitySum(ps, at, pi, neighbors, (lo + hi) \div 2 + 1, hi)

(* computeDensityPressure, lines 264-278; density in 1e-6 program units.   *)
computeDensityPressure(s) ==
    [s EXCEPT !.particles =
        LET at == IndexOf(s.particles)
        IN  Materialize([i \in DOMAIN s.particles |->
            LET pi == s.particles[i]
                neighbors == getNearby(s.spatialGrid, pi.pos, cellSize)
                density == DensitySum(s.particles, at, pi, neighbors, 1, Len(neighbors))
                             \div 1000
            IN  [pi EXCEPT !.density = density,
                           !.pressure = (GAS_CONSTANT * density) \div (MILLI * MILLI)
                                          - GAS_CONSTANT * pi.restDensity]])]


(* The three pairwise forces of lines 296-313 on pi from pj at distance r, *)
(* in thousandths of the program's unit.  With density in 1e-6, mass in    *)
(* tenths and the kernels in their own units the coefficients are          *)
(*   pressure   (1/2) * 2.8e6 * |SPIKY_GRAD| / 3600 * 1000  = 0.164        *)
(*   viscosity  180 * 2.8e6 * VISC_LAP / 60 * 1000          = 3538         *)
(*   tension    0.12 * 2.8e6 * 1000                         = 336000000    *)
(* with |SPIKY_GRAD| = VISC_LAP = 45 / (pi H^6) = 4.2114e-7, and SPIKY_GRAD *)
(* negative.                                                               *)
PressureForce(pi, pj, r, rVec) ==
    LET q == TDiv(-(pi.pressure + pj.pressure), pj.density)
        gradW == spikyGradient(r, rVec)
        fx == TDiv(SatMul(q, gradW.x, IntLimit), MILLI) * 164
        fy == TDiv(SatMul(q, gradW.y, IntLimit), MILLI) * 164
    IN  Vec2(Saturate(fx, ForceLimit), Saturate(fy, ForceLimit))

ViscosityForce(pi, pj, r) ==
    LET velDiff == VSub(pj.vel, pi.vel)
        viscCoeff == TDiv(3538 * viscosityLaplacian(r), pj.density)
    IN  Vec2(SatMul(viscCoeff, velDiff.x, ForceLimit),
             SatMul(viscCoeff, velDiff.y, ForceLimit))

SurfaceForce(pj, r, rVec) ==
    IF r * 100 > PosScale
    THEN LET tensionCoeff == -(336000000 \div pj.density)
         IN  Vec2(TDiv(tensionCoeff * rVec.x, r), TDiv(tensionCoeff * rVec.y, r))
    ELSE Vec2(0, 0)

(* The turn without the tests of lines 290 and 295 for the particle itself *)
(* and for the distance 0.                                                 *)
PairForceAtNoDistance(pi, pj) ==
    LET rVec == VSub(pi.pos, pj.pos)
        r2 == LengthSq(rVec)
        r == ISqrt(r2)
    IN  IF r2 < cellSize * cellSize
        THEN VAdd(PressureForce(pi, pj, r, rVec),
                  VAdd(ViscosityForce(pi, pj, r), SurfaceForce(pj, r, rVec)))
        ELSE Vec2(0, 0)

(* One turn of the neighbour loop of computeForces, lines 289-315: the sum *)
(* of fPressure, fViscosity and fSurface that pj adds.                     *)
PairForce(pi, pj) ==
    LET rVec == VSub(pi.pos, pj.pos)
        r2 == LengthSq(rVec)
        r == ISqrt(r2)
    IN  IF pi.id # pj.id /\ r2 > 0 /\ r2 < cellSize * cellSize
        THEN VAdd(PressureForce(pi, pj, r, rVec),
                  VAdd(ViscosityForce(pi, pj, r), SurfaceForce(pj, r, rVec)))
        ELSE Vec2(0, 0)

(* The neighbour loop of lines 289-315 over neighbors[lo..hi].             *)
RECURSIVE ForceSum(_, _, _, _, _, _)
ForceSum(ps, at, pi, neighbors, lo, hi) ==
    IF lo > hi THEN Vec2(0, 0)
    ELSE IF lo = hi THEN PairForce(pi, ps[at[neighbors[lo]]])
    ELSE VAdd(ForceSum(ps, at, pi, neighbors, lo, (lo + hi) \div 2),
              ForceSum(ps, at, pi, neighbors, (lo + hi) \div 2 + 1, hi))

(* a * 1000 / b for b > 0, rounded toward zero and saturated at +-lim.     *)
ScaledDiv(a, b, lim) ==
    LET q == Abs(a) \div b
        r == Abs(a) % b
        m == IF q >= lim THEN lim
             ELSE Min(lim, q * MILLI + ((IF r > MILLI * MILLI THEN MILLI * MILLI ELSE r) * MILLI) \div b)
    IN  IF a < 0 THEN -m ELSE m

(* Vec2.div, line 12, of a force in thousandths by a density in 1e-6,      *)
(* saturated: the velocity clamp of integrate hides any larger value.      *)
ForceOverDensity(f, density) ==
    IF density # 0
    THEN Vec2(ScaledDiv(f.x, density, AccLimit), ScaledDiv(f.y, density, AccLimit))
    ELSE Vec2(0, 0)

(* Vec2.normalize, line 16, in thousandths.                                *)
Normalize(v) ==
    LET len == SafeLength(v)
    IN  IF len > 0 THEN Vec2(TDiv(v.x * MILLI, len), TDiv(v.y * MILLI, len))
        ELSE Vec2(0, 0)

(* The mouse interaction with the drag under the test of the speed alone,  *)
(* outside the test of the button.                                         *)
MouseForceDragAlways(s, pos) ==
    LET toMouse == VSub(s.mousePos, pos)
        dist == SafeLength(toMouse)
        factor == MILLI - (dist * MILLI) \div (mouseForceRadius * PosScale)
        pushDir == Normalize(s.mouseVel)
        strength == (((mouseForceStrength \div MILLI) * factor) * factor) \div MILLI
        awayDir == Normalize(toMouse)
        away == IF s.isMouseDown
                THEN Vec2(TDiv(-awayDir.x * strength * 5, 10 * MILLI),
                          TDiv(-awayDir.y * strength * 5, 10 * MILLI))
                ELSE Vec2(0, 0)
        drag == IF LongerThan(s.mouseVel, 10)
                THEN Vec2(TDiv(pushDir.x * strength * 3, 10 * MILLI),
                          TDiv(pushDir.y * strength * 3, 10 * MILLI))
                ELSE Vec2(0, 0)
    IN  IF ShorterThan(toMouse, mouseForceRadius * PosScale)
           /\ LongerThan(toMouse, PosScale \div 10)
        THEN VAdd(away, drag)
        ELSE Vec2(0, 0)

(* The mouse interaction of computeForces, lines 320-342: what it adds to  *)
(* the acceleration of a particle at pos.                                  *)
MouseForce(s, pos) ==
    LET toMouse == VSub(s.mousePos, pos)
        dist == SafeLength(toMouse)
        factor == MILLI - (dist * MILLI) \div (mouseForceRadius * PosScale)
        pushDir == Normalize(s.mouseVel)
        strength == (((mouseForceStrength \div MILLI) * factor) * factor) \div MILLI
        awayDir == Normalize(toMouse)
        away == IF s.isMouseDown
                THEN Vec2(TDiv(-awayDir.x * strength * 5, 10 * MILLI),
                          TDiv(-awayDir.y * strength * 5, 10 * MILLI))
                ELSE Vec2(0, 0)
        drag == IF LongerThan(s.mouseVel, 10)
                THEN Vec2(TDiv(pushDir.x * strength * 3, 10 * MILLI),
                          TDiv(pushDir.y * strength * 3, 10 * MILLI))
                ELSE Vec2(0, 0)
    IN  IF s.isMouseDown \/ LongerThan(s.mouseVel, 50)
        THEN IF ShorterThan(toMouse, mouseForceRadius * PosScale)
                /\ LongerThan(toMouse, PosScale \div 10)
             THEN VAdd(away, drag)
             ELSE Vec2(0, 0)
        ELSE Vec2(0, 0)

(* computeForces, lines 281-344.                                           *)
computeForces(s) ==
    [s EXCEPT !.particles =
        LET at == IndexOf(s.particles)
        IN  Materialize([i \in DOMAIN s.particles |->
            LET pi == s.particles[i]
                neighbors == getNearby(s.spatialGrid, pi.pos, cellSize)
                f == ForceSum(s.particles, at, pi, neighbors, 1, Len(neighbors))
                acc == VAdd(ForceOverDensity(f, pi.density), Vec2(0, GRAVITY_Y))
            IN  [pi EXCEPT !.acc = VAdd(acc, MouseForce(s, pi.pos))]])]


----------------------------------------------------------------------------
(* applyAmbientPerturbation, lines 356-425.                                *)

WaveHorizon == WaveHorizonSeconds * TicksPerSecond

(* The filter of line 360.                                                 *)
(* The filter's predicate with <= for <.                                   *)
LiveWaveAtHorizon(w, time) == time - w.time <= WaveHorizon

LiveWave(w, time) == time - w.time < WaveHorizon

(* The seven ambient waves of lines 370-385 at position pos: perturbX and  *)
(* perturbY in thousandths.  freq = 0.4 + 0.25 i per second is             *)
(* (40 + 25 i) / 60 centiradians per tick.                                 *)
AmbientWave(time, phases, pos, i) ==
    LET angle == (i * PiCenti) \div numWaves
        wavePos == TDiv(pos.x * Cos(angle) + pos.y * Sin(angle), MILLI)
        argX == (time * (40 + 25 * i)) \div TicksPerSecond
                  + TDiv(wavePos * (15 + 8 * i), 10 * PosScale) + phases[i + 1]
        argY == (time * (40 + 25 * i) * 8) \div (10 * TicksPerSecond)
                  + TDiv(wavePos * (12 + 6 * i), 10 * PosScale) + phases[i + 1]
    IN  Vec2(TDiv(Sin(argX) * 5, i + 1), TDiv(Cos(argY) * 5 * 6, 10 * (i + 1)))

(* The loop of lines 370-385 over the waves lo to hi.                      *)
RECURSIVE AmbientWaves(_, _, _, _, _)
AmbientWaves(time, phases, pos, lo, hi) ==
    IF lo > hi THEN Vec2(0, 0)
    ELSE IF lo = hi THEN AmbientWave(time, phases, pos, lo)
    ELSE VAdd(AmbientWaves(time, phases, pos, lo, (lo + hi) \div 2),
              AmbientWaves(time, phases, pos, (lo + hi) \div 2 + 1, hi))

(* The swell of lines 388-391, in thousandths.                             *)
Swell(time, pos) ==
    Vec2(TDiv(Sin((time * 15) \div TicksPerSecond + TDiv(pos.y * 5, 10 * PosScale)) * 8 * 3, 10),
         TDiv(Sin((time * 15 * 13) \div (10 * TicksPerSecond)
                    + TDiv(pos.x * 4, 10 * PosScale)) * 8 * 5, 10))

(* One propagating ring wave of lines 394-416, in thousandths.             *)
RingWave(wave, time, pos) ==
    LET d == Vec2(pos.x - wave.x, pos.y - wave.y)
        dist == SafeLength(d)
        waveAge == time - wave.time
        waveRadius == (waveAge * 150 * PosScale) \div TicksPerSecond
        ringWidth == 40 * PosScale
        distFromRing == Abs(dist - waveRadius)
        ringFactor == MILLI - (distFromRing * MILLI) \div ringWidth
        decay == ExpDecay(waveAge)
        strength == ((((wave.strength * ringFactor) \div MILLI) * (decay \div 100)) \div MILLI) * 30
    IN  IF distFromRing < ringWidth /\ LongerThan(d, PosScale \div 10)
        THEN Vec2(TDiv(d.x * strength, dist),
                  TDiv(d.y * strength, 2 * dist) - (strength * 3) \div 10)
        ELSE Vec2(0, 0)

(* The loop of lines 394-416 over the wave origins lo to hi.               *)
RECURSIVE RingWaves(_, _, _, _, _)
RingWaves(waves, time, pos, lo, hi) ==
    IF lo > hi THEN Vec2(0, 0)
    ELSE IF lo = hi THEN RingWave(waves[lo], time, pos)
    ELSE VAdd(RingWaves(waves, time, pos, lo, (lo + hi) \div 2),
              RingWaves(waves, time, pos, (lo + hi) \div 2 + 1, hi))

(* The body of the loop without the test of line 363.                      *)
PerturbSplashToo(s, i) ==
    LET p == s.particles[i]
        rx == NextRng(s.rng)
        ry == NextRng(rx)
        sum == VAdd(AmbientWaves(s.time, s.wavePhases, p.pos, 0, numWaves - 1),
                    VAdd(Swell(s.time, p.pos),
                         RingWaves(s.waveOrigins, s.time, p.pos, 1, Len(s.waveOrigins))))
        perturbX == sum.x + TDiv((2 * rx - RandMod) * MILLI, RandMod)
        perturbY == sum.y + TDiv((2 * ry - RandMod) * MILLI, 2 * RandMod)
    IN  [s EXCEPT !.rng = ry,
                  !.particles[i].acc = Vec2(p.acc.x + TDiv(perturbX, MILLI),
                                            p.acc.y + TDiv(perturbY, MILLI))]

(* The body of the loop over the particles, lines 362-424, for the         *)
(* particle at index i; a particle that is not a splash draws the x and    *)
(* then the y turbulence.                                                  *)
Perturb(s, i) ==
    LET p == s.particles[i]
        rx == NextRng(s.rng)
        ry == NextRng(rx)
        sum == VAdd(AmbientWaves(s.time, s.wavePhases, p.pos, 0, numWaves - 1),
                    VAdd(Swell(s.time, p.pos),
                         RingWaves(s.waveOrigins, s.time, p.pos, 1, Len(s.waveOrigins))))
        perturbX == sum.x + TDiv((2 * rx - RandMod) * MILLI, RandMod)
        perturbY == sum.y + TDiv((2 * ry - RandMod) * MILLI, 2 * RandMod)
    IN  IF p.isSplash THEN s
        ELSE [s EXCEPT !.rng = ry,
                       !.particles[i].acc = Vec2(p.acc.x + TDiv(perturbX, MILLI),
                                                 p.acc.y + TDiv(perturbY, MILLI))]

(* The loop of line 362 over the particles lo to hi.                       *)
RECURSIVE PerturbAll(_, _, _)
PerturbAll(s, lo, hi) ==
    IF lo > hi THEN s
    ELSE IF lo = hi THEN Perturb(s, lo)
    ELSE CHOOSE u \in {PerturbAll(t, (lo + hi) \div 2 + 1, hi) :
                          t \in {PerturbAll(s, lo, (lo + hi) \div 2)}} : TRUE

applyAmbientPerturbation(s) ==
    LET time == s.time + 1
    IN  PerturbAll([s EXCEPT !.time = time,
                             !.waveOrigins = SelectSeq(s.waveOrigins,
                                                       LAMBDA w : LiveWave(w, time))],
                   1, Len(s.particles))


----------------------------------------------------------------------------
(* integrate, lines 428-451, for one particle.  alpha is in 1/10000.       *)

(* The velocity limit left out.                                            *)
ClampVelOff(v) == v

ClampVel(v) ==
    IF LengthSq(v) > maxVel * maxVel
    THEN LET velLen == ISqrtUp(LengthSq(v))
         IN  Vec2(TDiv(v.x * maxVel, velLen), TDiv(v.y * maxVel, velLen))
    ELSE v

(* The fade with age / lifespan as a whole-number division.                *)
AlphaWholeDivision(age, lifespan) == 6000 * (1 - TDiv(age * RandMod, lifespan))

Alpha(age, lifespan) == TDiv(6000 * (lifespan - age * RandMod), lifespan)

(* The loop body with the age advanced for the particles that are not      *)
(* splashes, and not for the splashes.                                     *)
IntegrateParticleAgeingOthers(p) ==
    LET vel == ClampVel(Vec2(TDiv((p.vel.x * TicksPerSecond + p.acc.x) * DampingMilli,
                                  TicksPerSecond * MILLI),
                             TDiv((p.vel.y * TicksPerSecond + p.acc.y) * DampingMilli,
                                  TicksPerSecond * MILLI)))
        moved == [p EXCEPT !.prevPos = p.pos, !.vel = vel, !.pos = VAdd(p.pos, vel)]
    IN  IF ~p.isSplash
        THEN [moved EXCEPT !.age = p.age + 1]
        ELSE moved

IntegrateParticle(p) ==
    LET vel == ClampVel(Vec2(TDiv((p.vel.x * TicksPerSecond + p.acc.x) * DampingMilli,
                                  TicksPerSecond * MILLI),
                             TDiv((p.vel.y * TicksPerSecond + p.acc.y) * DampingMilli,
                                  TicksPerSecond * MILLI)))
        moved == [p EXCEPT !.prevPos = p.pos, !.vel = vel, !.pos = VAdd(p.pos, vel)]
    IN  IF p.isSplash
        THEN [moved EXCEPT !.age = p.age + 1, !.a = Alpha(p.age + 1, p.lifespan)]
        ELSE moved

(* integrate that also takes the pointer as sampled: its velocity is       *)
(* zeroed and its previous position brought up to its position.            *)
integrateStillingPointer(s) ==
    [s EXCEPT !.particles =
                 Materialize([i \in DOMAIN s.particles |-> IntegrateParticle(s.particles[i])]),
              !.mouseVel = Vec2(0, 0),
              !.prevMousePos = s.mousePos]

integrate(s) ==
    [s EXCEPT !.particles =
        Materialize([i \in DOMAIN s.particles |-> IntegrateParticle(s.particles[i])])]

----------------------------------------------------------------------------
(* handleBoundaries, lines 454-503.                                        *)

(* The four clamps with the velocity reversed whole at every clamp.        *)
ClampParticleReversing(p, width, height) ==
    LET lo == margin * PosScale
        x == Max(lo, Min(width - lo, p.pos.x))
        y == Max(lo, Min(height - lo, p.pos.y))
        collided == x # p.pos.x \/ y # p.pos.y
    IN  [ p |-> [p EXCEPT !.pos = Vec2(x, y),
                          !.vel = IF collided
                                  THEN Vec2(TDiv(p.vel.x * (-BounceTenths), 10),
                                            TDiv(p.vel.y * (-BounceTenths), 10))
                                  ELSE p.vel],
          collided |-> collided,
          impactStrength |-> IF collided THEN Max(Abs(p.vel.x), Abs(p.vel.y)) ELSE 0 ]

(* The four clamps with the velocity component reversed only when it       *)
(* points at the wall of the clamp.                                        *)
ClampParticleTowardsOnly(p, width, height) ==
    LET lo == margin * PosScale
        left == p.pos.x < lo
        x1 == IF left THEN lo ELSE p.pos.x
        vx1 == IF left /\ p.vel.x < 0 THEN TDiv(p.vel.x * (-BounceTenths), 10) ELSE p.vel.x
        i1 == IF left THEN Abs(p.vel.x) ELSE 0
        right == x1 > width - lo
        x2 == IF right THEN width - lo ELSE x1
        vx2 == IF right /\ vx1 > 0 THEN TDiv(vx1 * (-BounceTenths), 10) ELSE vx1
        i2 == IF right THEN Max(i1, Abs(vx1)) ELSE i1
        top == p.pos.y < lo
        y1 == IF top THEN lo ELSE p.pos.y
        vy1 == IF top /\ p.vel.y < 0 THEN TDiv(p.vel.y * (-BounceTenths), 10) ELSE p.vel.y
        i3 == IF top THEN Max(i2, Abs(p.vel.y)) ELSE i2
        bottom == y1 > height - lo
        y2 == IF bottom THEN height - lo ELSE y1
        vy2 == IF bottom /\ vy1 > 0 THEN TDiv(vy1 * (-BounceTenths), 10) ELSE vy1
        i4 == IF bottom THEN Max(i3, Abs(vy1)) ELSE i3
    IN  [ p |-> [p EXCEPT !.pos = Vec2(x2, y2), !.vel = Vec2(vx2, vy2)],
          collided |-> left \/ right \/ top \/ bottom,
          impactStrength |-> i4 ]

(* The four clamps of lines 461-488 on one particle: the particle after    *)
(* them, whether it collided, and the impact strength.                     *)
ClampParticle(p, width, height) ==
    LET lo == margin * PosScale
        left == p.pos.x < lo
        x1 == IF left THEN lo ELSE p.pos.x
        vx1 == IF left THEN TDiv(p.vel.x * (-BounceTenths), 10) ELSE p.vel.x
        i1 == IF left THEN Abs(p.vel.x) ELSE 0
        right == x1 > width - lo
        x2 == IF right THEN width - lo ELSE x1
        vx2 == IF right THEN TDiv(vx1 * (-BounceTenths), 10) ELSE vx1
        i2 == IF right THEN Max(i1, Abs(vx1)) ELSE i1
        top == p.pos.y < lo
        y1 == IF top THEN lo ELSE p.pos.y
        vy1 == IF top THEN TDiv(p.vel.y * (-BounceTenths), 10) ELSE p.vel.y
        i3 == IF top THEN Max(i2, Abs(p.vel.y)) ELSE i2
        bottom == y1 > height - lo
        y2 == IF bottom THEN height - lo ELSE y1
        vy2 == IF bottom THEN TDiv(vy1 * (-BounceTenths), 10) ELSE vy1
        i4 == IF bottom THEN Max(i3, Abs(vy1)) ELSE i3
    IN  [ p |-> [p EXCEPT !.pos = Vec2(x2, y2), !.vel = Vec2(vx2, vy2)],
          collided |-> left \/ right \/ top \/ bottom,
          impactStrength |-> i4 ]

(* The chain reaction with the splash burst alone, no wave origin of the   *)
(* impact itself.                                                          *)
ChainReactionSplashOnly(s, i, collided, impactStrength) ==
    LET p == s.particles[i]
        r == NextRng(s.rng)
    IN  IF collided /\ impactStrength > 200 /\ ~p.isSplash
        THEN IF 10 * r < 4 * RandMod
             THEN createSplash([s EXCEPT !.rng = r], p.pos.x, p.pos.y - 5 * PosScale,
                               (impactStrength * MILLI) \div 500)
             ELSE [s EXCEPT !.rng = r]
        ELSE s

(* The chain reaction with a burst for the impact above 200 and one more   *)
(* for the impact above 150.                                               *)
ChainReactionTwice(s, i, collided, impactStrength) ==
    LET p == s.particles[i]
        r == NextRng(s.rng)
        s1 == IF impactStrength > 200
              THEN IF 10 * r < 4 * RandMod
                   THEN createSplash([s EXCEPT !.rng = r], p.pos.x, p.pos.y - 5 * PosScale,
                                     (impactStrength * MILLI) \div 500)
                   ELSE [s EXCEPT !.rng = r]
              ELSE s
    IN  IF collided /\ impactStrength > 100 /\ ~p.isSplash
        THEN IF impactStrength > 150
             THEN createSplash(s1, p.pos.x, p.pos.y, (impactStrength * MILLI) \div 300)
             ELSE s1
        ELSE s

(* The chain reaction of lines 490-501 for the particle at index i, which  *)
(* collided with impactStrength.  Math.random() is drawn only when the     *)
(* impact is above 200.                                                    *)
ChainReaction(s, i, collided, impactStrength) ==
    LET p == s.particles[i]
        r == NextRng(s.rng)
        s1 == IF impactStrength > 200
              THEN IF 10 * r < 4 * RandMod
                   THEN createSplash([s EXCEPT !.rng = r], p.pos.x, p.pos.y - 5 * PosScale,
                                     (impactStrength * MILLI) \div 500)
                   ELSE [s EXCEPT !.rng = r]
              ELSE s
    IN  IF collided /\ impactStrength > 100 /\ ~p.isSplash
        THEN IF impactStrength > 150
             THEN addWaveOrigin(s1, p.pos.x, p.pos.y, (impactStrength * MILLI) \div 300)
             ELSE s1
        ELSE s

(* The body of the loop of handleBoundaries, lines 458-502, for the        *)
(* particle at index i.                                                    *)
BoundaryPass(s, i) ==
    LET c == ClampParticle(s.particles[i], s.width, s.height)
    IN  ChainReaction([s EXCEPT !.particles[i] = c.p], i, c.collided, c.impactStrength)

(* The turns of the loop of line 457 for the particles lo to hi.           *)
RECURSIVE BoundaryPasses(_, _, _)
BoundaryPasses(s, lo, hi) ==
    IF lo > hi THEN s
    ELSE IF lo = hi THEN BoundaryPass(s, lo)
    ELSE CHOOSE u \in {BoundaryPasses(t, (lo + hi) \div 2 + 1, hi) :
                          t \in {BoundaryPasses(s, lo, (lo + hi) \div 2)}} : TRUE

(* The loop as it would run over the particles present when it starts.     *)
BoundaryLoopOverSnapshot(s, i) == BoundaryPasses(s, i, Len(s.particles))

(* The for-of loop of line 457 over this.particles from index i on: the    *)
(* array iterator reads the length at every turn, so after the particles   *)
(* present it also visits those that createSplash appended meanwhile.      *)
RECURSIVE BoundaryLoop(_, _)
BoundaryLoop(s, i) ==
    IF i > Len(s.particles) THEN s
    ELSE BoundaryLoop(BoundaryPasses(s, i, Len(s.particles)), Len(s.particles) + 1)

handleBoundaries(s) == BoundaryLoop(s, 1)

(* The filter's predicate with <= for <, with > for <, and without the     *)
(* test of isSplash.                                                       *)
AliveAtLifespan(p) == ~p.isSplash \/ p.age * RandMod <= p.lifespan

AliveInverted(p) == ~p.isSplash \/ p.age * RandMod > p.lifespan

AliveByAge(p) == p.age * RandMod < p.lifespan

(* removeDeadParticles, lines 506-508.                                     *)
Alive(p) == ~p.isSplash \/ p.age * RandMod < p.lifespan

(* The cleanup that leaves the survivors in the reverse order.             *)
removeDeadParticlesReversing(s) ==
    LET kept == SelectSeq(s.particles, Alive)
    IN  [s EXCEPT !.particles = [i \in 1..Len(kept) |-> kept[Len(kept) + 1 - i]]]

removeDeadParticles(s) == [s EXCEPT !.particles = SelectSeq(s.particles, Alive)]

(* The phases before the boundary resolution with the integration first.   *)
StepIntegratingFirst(s) ==
    applyAmbientPerturbation(
      computeForces(
        computeDensityPressure(
          RebuildGrid(
            integrate(s)))))

(* step, lines 511-524: the phases before the boundary resolution, those   *)
(* before the cleanup, and the whole.                                      *)
StepBeforeBoundaries(s) ==
    integrate(
      applyAmbientPerturbation(
        computeForces(
          computeDensityPressure(
            RebuildGrid(s)))))

StepBeforeCleanup(s) == handleBoundaries(StepBeforeBoundaries(s))

step(s) == removeDeadParticles(StepBeforeCleanup(s))


----------------------------------------------------------------------------
(* The constructor, lines 132-146: the seven wave phases are the first     *)
(* seven draws.                                                            *)

WavePhases(seed) ==
    [i \in 1..numWaves |-> (Draws(seed, i) * 2 * PiCenti) \div RandMod]

FluidSimulator(width, height, seed) ==
    [ particles    |-> << >>,
      spatialGrid  |-> << >>,
      width        |-> width,
      height       |-> height,
      time         |-> 0,
      wavePhases   |-> WavePhases(seed),
      waveOrigins  |-> << >>,
      mousePos     |-> Vec2(-1000 * PosScale, -1000 * PosScale),
      prevMousePos |-> Vec2(-1000 * PosScale, -1000 * PosScale),
      mouseVel     |-> Vec2(0, 0),
      isMouseDown  |-> FALSE,
      rng          |-> Draws(seed, numWaves),
      nextId       |-> 1 ]


----------------------------------------------------------------------------
(* The environment: the calls it makes on the simulator and on the grid.   *)
(* A scenario gives it a budget (fuel) and its inputs:                     *)
(*   ops    calls of the simulator's operations and the component's        *)
(*          handlers                                                       *)
(*   step   animation frames                                               *)
(*   busy   animation frames run over more than LightLoad particles        *)
(*   early  the operations are called before this many frames have run     *)
(*   query  calls of getNearby                                             *)

Px(n) == n * PosScale

LightLoad == 6

Budget(o, f, b, e, q) ==
    [ops |-> o, step |-> f, busy |-> b, early |-> e, query |-> q]

(* The particles of before that are not in after, as the operation by left *)
(* them.                                                                   *)
Gone(before, after, by) ==
    LET kept == {after[i].id : i \in DOMAIN after}
    IN  { [ id |-> before[i].id, isSplash |-> before[i].isSplash, age |-> before[i].age,
            lifespan |-> before[i].lifespan, seen |-> before[i].seen, by |-> by ]
          : i \in {j \in DOMAIN before : before[j].id \notin kept} }

(* A call of the operation op that leaves the simulator as s2.             *)
Call(op, s2) ==
    /\ sim' = s2
    /\ removed' = removed \cup Gone(sim.particles, s2.particles, op)
    /\ lastOp' = op
    /\ nearby' = nearby
    /\ kernel' = kernel
    /\ view' = view

External(op, s2) ==
    /\ fuel.ops > 0
    /\ sim.time < fuel.early
    /\ fuel' = [fuel EXCEPT !.ops = @ - 1]
    /\ Call(op, s2)

NoQuery == [pos |-> Vec2(0, 0), radius |-> 0, result |-> << >>]

NoKernel == [r2 |-> 0, w |-> 0]

(* The component's references before its effect has run, lines 540-542:    *)
(* no frame requested, animationRef 0, no listener, nothing rendered.      *)
NoView == [frames |-> {}, animationRef |-> 0, nextFrame |-> 1, listening |-> FALSE,
           drawn |-> << >>]

(* One animation frame, lines 737-741: step().  Every particle present is  *)
(* counted as seen by the call; pre is the simulator as the cleanup finds  *)
(* it, post as step leaves it.                                             *)
Frame(s) ==
    LET counted == [s EXCEPT !.particles =
                       Materialize([i \in DOMAIN s.particles |->
                                       [s.particles[i] EXCEPT !.seen = @ + 1]])]
        pre == StepBeforeCleanup(counted)
    IN  [pre |-> pre, post |-> removeDeadParticles(pre)]

Step ==
    /\ fuel.step > 0
    /\ Len(sim.particles) <= LightLoad \/ fuel.busy > 0
    /\ fuel' = [fuel EXCEPT !.step = @ - 1,
                            !.busy = IF Len(sim.particles) <= LightLoad THEN @ ELSE @ - 1]
    /\ LET f == Frame(sim)
       IN  /\ sim' = f.post
           /\ removed' = removed \cup Gone(f.pre.particles, f.post.particles, "step")
    /\ lastOp' = "step"
    /\ nearby' = nearby
    /\ kernel' = kernel
    /\ view' = view

----------------------------------------------------------------------------
(* The general scenario: a simulator just constructed, a few calls of any  *)
(* operation, a few frames.                                                *)

MaxOps == 2
MaxSteps == 2
MaxBusySteps == 1

Seeds == {1}
WorldSizes == {Vec2(Px(60), Px(60))}
ResizeSizes == {Vec2(Px(40), Px(60)), Vec2(Px(8), Px(60))}
RefillSizes == {Vec2(Px(40), Px(60))}
ParticleInputs ==
    { [pos |-> Vec2(Px(2), Px(30)), vel |-> Vec2(-400, 0), isSplash |-> FALSE],
      [pos |-> Vec2(Px(8), Px(30)), vel |-> Vec2(0, 0), isSplash |-> TRUE] }
SplashPoints == {Vec2(Px(30), Px(30))}
SplashIntensities == {250}
RippleStrengths == {1500}
MousePositions == {Vec2(Px(30), Px(30))}
WaterBlocks == {[x |-> Px(10), y |-> Px(10), w |-> Px(20), h |-> Px(20), spacing |-> Px(10)]}

Init ==
    /\ \E size \in WorldSizes, seed \in Seeds :
          sim = FluidSimulator(size.x, size.y, seed)
    /\ removed = {}
    /\ lastOp = "new"
    /\ fuel = Budget(MaxOps, MaxSteps, MaxBusySteps, MaxSteps + 1, 0)
    /\ nearby = NoQuery
    /\ kernel = NoKernel
    /\ view = NoView

AddParticle ==
    \E in \in ParticleInputs :
        External("addParticle", addParticle(sim, in.pos.x, in.pos.y, in.vel, in.isSplash))

CreateWaterBlock ==
    \E b \in WaterBlocks :
        External("createWaterBlock", createWaterBlock(sim, b.x, b.y, b.w, b.h, b.spacing))

CreateSplash ==
    \E pos \in SplashPoints, intensity \in SplashIntensities :
        External("createSplash", createSplash(sim, pos.x, pos.y, intensity))

CreateRipple ==
    \E pos \in SplashPoints, strength \in RippleStrengths :
        External("createRipple", createRipple(sim, pos.x, pos.y, strength))

SetMousePos ==
    \E pos \in MousePositions :
        External("setMousePos", setMousePos(sim, pos.x, pos.y))

SetMouseDown ==
    \E down \in BOOLEAN :
        External("setMouseDown", setMouseDown(sim, down))

Resize ==
    \E size \in ResizeSizes :
        External("resize", resize(sim, size.x, size.y))

(* The component's handler of the window's resize event, lines 658-671.    *)
UpdateSize ==
    \E size \in RefillSizes :
        External("updateSize", updateSize(sim, size.x, size.y))

AddWaveOrigin ==
    \E pos \in SplashPoints :
        External("addWaveOrigin", addWaveOrigin(sim, pos.x, pos.y, MILLI))

Next ==
    \/ AddParticle
    \/ CreateWaterBlock
    \/ CreateSplash
    \/ CreateRipple
    \/ SetMousePos
    \/ SetMouseDown
    \/ Resize
    \/ UpdateSize
    \/ AddWaveOrigin
    \/ Step

Spec == Init /\ [][Next]_vars

----------------------------------------------------------------------------
(* The long scenario: a simulator just constructed, at most MaxLifeOps     *)
(* calls before the first frame, then the frames of a splash particle's    *)
(* life.  With LifeSeeds the first splash particle added has a lifespan of *)
(* 60 steps, or of 60 + 60/1024.                                           *)

MaxLifeOps == 2
MaxLifeSteps == 62

LifeSeeds == {447, 448}

InitLife ==
    /\ \E size \in WorldSizes, seed \in LifeSeeds :
          sim = FluidSimulator(size.x, size.y, seed)
    /\ removed = {}
    /\ lastOp = "new"
    /\ fuel = Budget(MaxLifeOps, MaxLifeSteps, 0, 1, 0)
    /\ nearby = NoQuery
    /\ kernel = NoKernel
    /\ view = NoView

SpecLife == InitLife /\ [][Next]_vars

----------------------------------------------------------------------------
(* The scenario of the wave origins: a simulator that has run for one      *)
(* frame less than the retention horizon, its list of wave origins full    *)
(* with two origins pushed before the first frame and the others after it, *)
(* then the calls and frames of the general scenario, without the frames   *)
(* over more than LightLoad particles.                                     *)

(* n calls of addWaveOrigin.                                               *)
RECURSIVE Pushes(_, _)
Pushes(s, n) ==
    IF n <= 0 THEN s
    ELSE addWaveOrigin(Pushes(s, n - 1), Px(30), Px(30), MILLI)

AgedFrames == WaveHorizon - 1

(* The simulator s, new, after two pushes, a frame, the pushes that fill   *)
(* the list, and the other frames up to AgedFrames: without particles a    *)
(* frame adds 1/60 s to the time, filters the wave origins, none of which  *)
(* is 3 s old yet, and changes nothing else.                               *)
Aged(s) ==
    [Pushes([Pushes(s, 2) EXCEPT !.time = 1], WaveCapacity - 2) EXCEPT !.time = AgedFrames]

InitWaves ==
    /\ \E size \in WorldSizes, seed \in Seeds :
          sim = Aged(FluidSimulator(size.x, size.y, seed))
    /\ removed = {}
    /\ lastOp = "new"
    /\ fuel = Budget(MaxOps, MaxSteps, 0, AgedFrames + MaxSteps + 1, 0)
    /\ nearby = NoQuery
    /\ kernel = NoKernel
    /\ view = NoView

SpecWaves == InitWaves /\ [][Next]_vars

----------------------------------------------------------------------------
(* The scenario of the spatial hash grid: particles are added and inserted *)
(* in the grid one by one, the grid is cleared, and getNearby is called.   *)
(* The positions are on both sides of the cell borders, the negative ones  *)
(* included; the radii go up to the cell size.                             *)

MaxGridOps == 3
MaxGridQueries == 1

GridPositions ==
    { Vec2(0, 0), Vec2(-1, 0), Vec2(cellSize, cellSize), Vec2(-cellSize, -(cellSize \div 2)),
      Vec2(cellSize - 1, cellSize \div 2) }
QueryCenters ==
    { Vec2(0, 0), Vec2(-(cellSize \div 2), -(cellSize \div 2)), Vec2(cellSize, 0),
      Vec2(cellSize \div 2 - 1, cellSize - 1) }
QueryRadii == {0, 1, cellSize \div 2, cellSize - 1, cellSize}

InitGrid ==
    /\ \E size \in WorldSizes, seed \in Seeds :
          sim = FluidSimulator(size.x, size.y, seed)
    /\ removed = {}
    /\ lastOp = "new"
    /\ fuel = Budget(MaxGridOps, 0, 0, 1, MaxGridQueries)
    /\ nearby = NoQuery
    /\ kernel = NoKernel
    /\ view = NoView

(* A particle is added, line 192, and inserted in the grid, line 515.      *)
GridInsert ==
    \E pos \in GridPositions :
        LET added == addParticle(sim, pos.x, pos.y, Vec2(0, 0), FALSE)
        IN  /\ fuel.ops > 0
            /\ fuel' = [fuel EXCEPT !.ops = @ - 1]
            /\ sim' = [added EXCEPT !.spatialGrid =
                                       insert(@, added.particles[Len(added.particles)])]
            /\ lastOp' = "insert"
            /\ UNCHANGED <<removed, nearby, kernel, view>>

(* The grid is cleared, line 513.                                          *)
GridClear ==
    /\ fuel.ops > 0
    /\ fuel' = [fuel EXCEPT !.ops = @ - 1]
    /\ sim' = [sim EXCEPT !.spatialGrid = clear(@)]
    /\ lastOp' = "clear"
    /\ UNCHANGED <<removed, nearby, kernel, view>>

(* getNearby is called, lines 267 and 287.                                 *)
GridQuery ==
    \E center \in QueryCenters, radius \in QueryRadii :
        /\ fuel.query > 0
        /\ fuel' = [fuel EXCEPT !.query = @ - 1]
        /\ nearby' = [pos |-> center, radius |-> radius,
                      result |-> getNearby(sim.spatialGrid, center, radius)]
        /\ lastOp' = "getNearby"
        /\ UNCHANGED <<sim, removed, kernel, view>>

NextGrid ==
    \/ GridInsert
    \/ GridClear
    \/ GridQuery

SpecGrid == InitGrid /\ [][NextGrid]_vars

----------------------------------------------------------------------------
(* The scenario of the water blocks: a simulator just constructed, at most *)
(* MaxBlockOps calls of createWaterBlock, one frame.  The blocks lie       *)
(* between the walls or across them, with a spacing that divides their     *)
(* extent or not.                                                          *)

MaxBlockOps == 1

BlockSeeds == {1, 5, 100, 300, 447, 448, 700, 900}

Block(x, y, w, h, spacing) == [x |-> x, y |-> y, w |-> w, h |-> h, spacing |-> spacing]

BlockInputs ==
    { Block(Px(10), Px(10), Px(20), Px(20), Px(10)),
      Block(Px(10), Px(10), Px(25), Px(15), Px(10)),
      Block(Px(20), Px(20), Px(21), Px(10), Px(10)),
      Block(Px(20), Px(20), Px(1), Px(1), Px(10)),
      Block(Px(20), Px(20), Px(4), Px(4), Px(2)),
      Block(Px(20), Px(20), Px(3), Px(2), Px(1)),
      Block(0, 0, Px(20), Px(10), Px(10)),
      Block(0, Px(20), Px(10), Px(30), Px(10)) }

InitBlock ==
    /\ \E size \in WorldSizes, seed \in BlockSeeds :
          sim = FluidSimulator(size.x, size.y, seed)
    /\ removed = {}
    /\ lastOp = "new"
    /\ fuel = Budget(MaxBlockOps, 1, 0, 1, 0)
    /\ nearby = NoQuery
    /\ kernel = NoKernel
    /\ view = NoView

CreateBlock ==
    \E b \in BlockInputs :
        External("createWaterBlock", createWaterBlock(sim, b.x, b.y, b.w, b.h, b.spacing))

NextBlock ==
    \/ CreateBlock
    \/ Step

SpecBlock == InitBlock /\ [][NextBlock]_vars

----------------------------------------------------------------------------
(* The scenario of the ripples: a simulator just constructed, at most      *)
(* MaxRippleOps calls of addParticle and createRipple.  The particles lie  *)
(* at the centre of the ripple, 0.05 px from it, and 8, 20 and 28 px from  *)
(* it; the ripples have a radius of 24 px (strength 0.3) and of 120 px     *)
(* (strength 1.5).                                                         *)

MaxRippleOps == 3

RippleCentres == {Vec2(Px(30), Px(30))}

RippleInputs == {300, 1500}

RippleParticles ==
    { [pos |-> Vec2(Px(30), Px(30)), vel |-> Vec2(0, 0), isSplash |-> FALSE],
      [pos |-> Vec2(Px(30) + 3, Px(30)), vel |-> Vec2(0, 0), isSplash |-> FALSE],
      [pos |-> Vec2(Px(38), Px(30)), vel |-> Vec2(0, 0), isSplash |-> FALSE],
      [pos |-> Vec2(Px(30), Px(50)), vel |-> Vec2(40, -20), isSplash |-> TRUE],
      [pos |-> Vec2(Px(58), Px(30)), vel |-> Vec2(0, 0), isSplash |-> FALSE] }

InitRipple ==
    /\ \E size \in WorldSizes, seed \in Seeds :
          sim = FluidSimulator(size.x, size.y, seed)
    /\ removed = {}
    /\ lastOp = "new"
    /\ fuel = Budget(MaxRippleOps, 0, 0, 1, 0)
    /\ nearby = NoQuery
    /\ kernel = NoKernel
    /\ view = NoView

PlaceParticle ==
    \E in \in RippleParticles :
        External("addParticle", addParticle(sim, in.pos.x, in.pos.y, in.vel, in.isSplash))

Ripple ==
    \E pos \in RippleCentres, strength \in RippleInputs :
        External("createRipple", createRipple(sim, pos.x, pos.y, strength))

NextRipple ==
    \/ PlaceParticle
    \/ Ripple

SpecRipple == InitRipple /\ [][NextRipple]_vars

----------------------------------------------------------------------------
(* The scenario of the pointer: a simulator whose button is up, or has     *)
(* been down for HeldFrames frames (the splash of the press has expired    *)
(* and its wave origin is gone), at most MaxPointerOps calls of            *)
(* addParticle, setMousePos and setMouseDown before the next frame, and    *)
(* that frame.  The pointer moves along y = 30 px and ends at x = 30 px    *)
(* with a speed of 0, 5, 10, 20, 50 or 60 px/s; the probe is a splash      *)
(* particle 10 px below that point, which the ambient perturbation leaves  *)
(* alone.                                                                  *)

MaxPointerOps == 4

HeldFrames == 240

PointerLeads == {0, 5, 10, 20, 50, 60}

Probes == {[pos |-> Vec2(Px(30), Px(40)), vel |-> Vec2(0, 0), isSplash |-> TRUE]}

(* The simulator s, new, HeldFrames frames after setMouseDown(true).       *)
Held(s) ==
    [setMouseDown(s, TRUE) EXCEPT !.particles = << >>, !.waveOrigins = << >>,
                                  !.time = HeldFrames]

InitPointer ==
    /\ \E size \in WorldSizes, seed \in Seeds :
          \/ sim = FluidSimulator(size.x, size.y, seed)
          \/ sim = Held(FluidSimulator(size.x, size.y, seed))
    /\ removed = {}
    /\ lastOp = "new"
    /\ fuel = Budget(MaxPointerOps, 1, 0, HeldFrames + 1, 0)
    /\ nearby = NoQuery
    /\ kernel = NoKernel
    /\ view = NoView

PlaceProbe ==
    \E in \in Probes :
        External("addParticle", addParticle(sim, in.pos.x, in.pos.y, in.vel, in.isSplash))

MovePointer ==
    \E lead \in PointerLeads :
        External("setMousePos", setMousePos(sim, Px(30) - lead, Px(30)))

NextPointer ==
    \/ PlaceProbe
    \/ MovePointer
    \/ SetMouseDown
    \/ Step

SpecPointer == InitPointer /\ [][NextPointer]_vars

----------------------------------------------------------------------------
(* The scenario of the kernel: poly6Kernel is evaluated at r2, in px^2,    *)
(* from 0 to MaxKernelExcess beyond H2, one value after another.           *)

MaxKernelExcess == 16

KernelInputs == 0..(H2 + MaxKernelExcess)

InitKernel ==
    /\ \E size \in WorldSizes, seed \in Seeds :
          sim = FluidSimulator(size.x, size.y, seed)
    /\ removed = {}
    /\ lastOp = "new"
    /\ fuel = Budget(0, 0, 0, 0, 0)
    /\ nearby = NoQuery
    /\ kernel = NoKernel
    /\ view = NoView

(* poly6Kernel is called, line 271.                                        *)
Poly6 ==
    \E r2 \in KernelInputs :
        /\ kernel' = [r2 |-> r2, w |-> poly6Kernel(r2)]
        /\ lastOp' = "poly6Kernel"
        /\ UNCHANGED <<sim, removed, fuel, nearby, view>>

NextKernel == Poly6

SpecKernel == InitKernel /\ [][NextKernel]_vars

----------------------------------------------------------------------------
(* The WaterSimulation component, lines 646-757: its effect has created    *)
(* the simulator, filled it and registered the listeners, and is about to  *)
(* call animate() (line 746); then come at most MaxViewFrames runs of      *)
(* animate, at most MaxViewBusyFrames of them over more than LightLoad     *)
(* particles, at most MaxViewOps events for the listeners, and the cleanup *)
(* of the effect.  The browser runs every callback to its end before the   *)
(* next one, the effect included: no event is dispatched and no cleanup    *)
(* runs before the call of line 746 has requested the first frame.  The    *)
(* frame 0 stands for that call.  In a canvas of 30 x 30 px the pool of    *)
(* initializeWater is one particle.                                        *)

(* animate with the request's handle dropped instead of kept in            *)
(* animationRef.                                                           *)
animateUntracked(v, id, s) ==
    [v EXCEPT !.drawn = s.particles,
              !.frames = (@ \ {id}) \cup {v.nextFrame},
              !.nextFrame = @ + 1]

(* animate, lines 737-744, run as the frame id, after its call of step()   *)
(* has left the simulator as s: render(), which reads the particles, and   *)
(* the request of the next frame, whose handle goes to animationRef.       *)
animate(v, id, s) ==
    [v EXCEPT !.drawn = s.particles,
              !.frames = (@ \ {id}) \cup {v.nextFrame},
              !.animationRef = v.nextFrame,
              !.nextFrame = @ + 1]

(* The cleanup of the effect, lines 748-757: cancelAnimationFrame of the   *)
(* handle in animationRef, and the listeners removed.                      *)
cleanup(v) ==
    [v EXCEPT !.frames = @ \ {v.animationRef}, !.listening = FALSE]

(* The effect, lines 646-745, in a canvas of width x height: the simulator *)
(* is created, sized and filled (lines 674-677), and the listeners are     *)
(* added.                                                                  *)
Mounted(width, height, seed) ==
    [ sim |-> initializeWater(updateSize(FluidSimulator(width, height, seed), width, height),
                              width, height),
      view |-> [NoView EXCEPT !.listening = TRUE, !.frames = {0}] ]

(* The effect has returned: a frame has been requested, and the browser    *)
(* may dispatch events to the listeners and React may run the cleanup.     *)
Listening(v) == v.listening /\ v.animationRef # 0

(* handleMouseDown and handleTouchStart, lines 687-695 and 712-720.        *)
handleMouseDown(s, x, y) ==
    createRipple(setMouseDown(setMousePos(s, x, y), TRUE), x, y, 1500)

MaxViewOps == 2
MaxViewFrames == 3
MaxViewBusyFrames == 1

CanvasSizes == {Vec2(Px(30), Px(30))}
WindowSizes == {Vec2(Px(30), Px(30)), Vec2(Px(40), Px(60))}
PointerPoints == {Vec2(Px(15), Px(15))}

InitView ==
    /\ \E size \in CanvasSizes, seed \in Seeds :
          LET m == Mounted(size.x, size.y, seed)
          IN  sim = m.sim /\ view = m.view
    /\ removed = {}
    /\ lastOp = "new"
    /\ fuel = Budget(MaxViewOps, MaxViewFrames, MaxViewBusyFrames, MaxViewFrames + 1, 0)
    /\ nearby = NoQuery
    /\ kernel = NoKernel

(* The effect calls animate, or the browser runs a requested frame.        *)
Animate ==
    \E id \in view.frames :
        /\ fuel.step > 0
        /\ Len(sim.particles) <= LightLoad \/ fuel.busy > 0
        /\ fuel' = [fuel EXCEPT !.step = @ - 1,
                                !.busy = IF Len(sim.particles) <= LightLoad THEN @ ELSE @ - 1]
        /\ LET f == Frame(sim)
           IN  /\ sim' = f.post
               /\ removed' = removed \cup Gone(f.pre.particles, f.post.particles, "step")
        /\ view' = animate(view, id, sim')
        /\ lastOp' = "animate"
        /\ UNCHANGED <<nearby, kernel>>

(* The listeners of lines 727-733, while they are registered.              *)
MouseMove ==
    \E pos \in PointerPoints :
        Listening(view) /\ External("handleMouseMove", setMousePos(sim, pos.x, pos.y))

MouseDown ==
    \E pos \in PointerPoints :
        Listening(view) /\ External("handleMouseDown", handleMouseDown(sim, pos.x, pos.y))

MouseUp ==
    Listening(view) /\ External("handleMouseUp", setMouseDown(sim, FALSE))

WindowResize ==
    \E size \in WindowSizes :
        Listening(view) /\ External("updateSize", updateSize(sim, size.x, size.y))

(* React runs the cleanup of the effect.                                   *)
Unmount ==
    /\ Listening(view)
    /\ view' = cleanup(view)
    /\ lastOp' = "cleanup"
    /\ UNCHANGED <<sim, removed, fuel, nearby, kernel>>

NextView ==
    \/ Animate
    \/ MouseMove
    \/ MouseDown
    \/ MouseUp
    \/ WindowResize
    \/ Unmount

SpecView == InitView /\ [][NextView]_vars

----------------------------------------------------------------------------
(* The scenario of the walls: a simulator just constructed, at most        *)
(* MaxWallOps particles launched at the walls, at a corner or between the  *)
(* walls, and one frame.                                                   *)

MaxWallOps == 2

Launch(x, y, vx, vy, isSplash) ==
    [pos |-> Vec2(Px(x), Px(y)), vel |-> Vec2(vx, vy), isSplash |-> isSplash]

WallInputs ==
    { Launch(2, 30, -400, 30, FALSE),
      Launch(57, 30, 300, 0, FALSE),
      Launch(30, 6, 0, -200, FALSE),
      Launch(30, 54, 50, 250, FALSE),
      Launch(6, 6, -300, -300, FALSE),
      Launch(6, 45, -150, 0, TRUE),
      Launch(30, 30, 20, -20, TRUE) }

InitWalls ==
    /\ \E size \in WorldSizes, seed \in Seeds :
          sim = FluidSimulator(size.x, size.y, seed)
    /\ removed = {}
    /\ lastOp = "new"
    /\ fuel = Budget(MaxWallOps, 1, 1, 1, 0)
    /\ nearby = NoQuery
    /\ kernel = NoKernel
    /\ view = NoView

LaunchParticle ==
    \E in \in WallInputs :
        External("addParticle", addParticle(sim, in.pos.x, in.pos.y, in.vel, in.isSplash))

NextWalls ==
    \/ LaunchParticle
    \/ Step

SpecWalls == InitWalls /\ [][NextWalls]_vars

----------------------------------------------------------------------------
(* The scenario of the degenerate pairs: a simulator just constructed, at  *)
(* most MaxForceOps particles added on one another, one position unit      *)
(* (1/PosScale px) apart, within H, and exactly H apart, and one frame.    *)

MaxForceOps == 3

ForceInputs ==
    { Launch(30, 30, 0, 0, TRUE),
      Launch(30, 30, 60, -30, TRUE),
      Launch(30, 30, 10, 0, FALSE),
      [pos |-> Vec2(Px(30) + 1, Px(30)), vel |-> Vec2(0, 90), isSplash |-> TRUE],
      Launch(40, 30, -50, 0, TRUE),
      Launch(48, 30, 0, 40, TRUE) }

InitForces ==
    /\ \E size \in WorldSizes, seed \in Seeds :
          sim = FluidSimulator(size.x, size.y, seed)
    /\ removed = {}
    /\ lastOp = "new"
    /\ fuel = Budget(MaxForceOps, 1, 0, 1, 0)
    /\ nearby = NoQuery
    /\ kernel = NoKernel
    /\ view = NoView

AddNeighbour ==
    \E in \in ForceInputs :
        External("addParticle", addParticle(sim, in.pos.x, in.pos.y, in.vel, in.isSplash))

NextForces ==
    \/ AddNeighbour
    \/ Step

SpecForces == InitForces /\ [][NextForces]_vars

----------------------------------------------------------------------------
(* The scenario of the cleanup: a simulator just constructed, at most      *)
(* MaxCleanupOps particles added before the first frame (one that is not a *)
(* splash, at rest on the bottom wall, and splash particles let fall), and *)
(* the frames of the longest life of a splash particle.  With CleanupSeeds *)
(* the first splash particle added has a lifespan of 60 + 60 * 1023/1024   *)
(* steps, or of 60, and the second of 60 + 60 * 241/1024 or 242/1024.      *)

MaxCleanupOps == 3
MaxCleanupSteps == 121

CleanupSeeds == {446, 447}

CleanupInputs ==
    { Launch(30, 55, 0, 0, FALSE),
      Launch(10, 30, 0, 0, TRUE),
      Launch(50, 30, 0, 0, TRUE) }

InitCleanup ==
    /\ \E size \in WorldSizes, seed \in CleanupSeeds :
          sim = FluidSimulator(size.x, size.y, seed)
    /\ removed = {}
    /\ lastOp = "new"
    /\ fuel = Budget(MaxCleanupOps, MaxCleanupSteps, 0, 1, 0)
    /\ nearby = NoQuery
    /\ kernel = NoKernel
    /\ view = NoView

AddDroplet ==
    \E in \in CleanupInputs :
        External("addParticle", addParticle(sim, in.pos.x, in.pos.y, in.vel, in.isSplash))

NextCleanup ==
    \/ AddDroplet
    \/ Step

SpecCleanup == InitCleanup /\ [][NextCleanup]_vars

(* The frame the animation loop has requested, lines 737-744: what Step    *)
(* needs to be taken and what it does to the fuel.  Within NextCleanup the *)
(* steps that take a frame off the fuel are the Step steps.                *)
StepRequested ==
    /\ fuel.step > 0
    /\ Len(sim.particles) <= LightLoad \/ fuel.busy > 0
    /\ fuel' = [fuel EXCEPT !.step = @ - 1,
                            !.busy = IF Len(sim.particles) <= LightLoad THEN @ ELSE @ - 1]

(* The same under the scheduling of the component: the animation loop      *)
(* requests every next frame, so a frame that can run does run.            *)
SpecCleanupFair == SpecCleanup /\ WF_fuel(StepRequested)

----------------------------------------------------------------------------
(* The scenario of the bounce: a simulator just constructed, at most       *)
(* MaxBounceOps calls of addParticle and resize, around at most            *)
(* MaxBounceSteps frames.  The particles are added beyond the left wall    *)
(* moving away from it, between the walls moving to the left one, and      *)
(* where a narrower rectangle leaves them beyond the right wall, moving    *)
(* away from it.                                                           *)

MaxBounceOps == 2
MaxBounceSteps == 2

BounceInputs ==
    { Launch(2, 30, 100, 0, FALSE),
      Launch(8, 30, -400, 0, FALSE),
      Launch(50, 45, -100, 0, FALSE),
      Launch(50, 15, -100, 0, TRUE) }

InitBounce ==
    /\ \E size \in WorldSizes, seed \in Seeds :
          sim = FluidSimulator(size.x, size.y, seed)
    /\ removed = {}
    /\ lastOp = "new"
    /\ fuel = Budget(MaxBounceOps, MaxBounceSteps, 0, MaxBounceSteps + 1, 0)
    /\ nearby = NoQuery
    /\ kernel = NoKernel
    /\ view = NoView

AddMoving ==
    \E in \in BounceInputs :
        External("addParticle", addParticle(sim, in.pos.x, in.pos.y, in.vel, in.isSplash))

NextBounce ==
    \/ AddMoving
    \/ Resize
    \/ Step

SpecBounce == InitBounce /\ [][NextBounce]_vars

----------------------------------------------------------------------------
(* Containment.                                                            *)

InsideWalls(p, s) ==
    /\ margin * PosScale <= p.pos.x
    /\ p.pos.x <= s.width - margin * PosScale
    /\ margin * PosScale <= p.pos.y
    /\ p.pos.y <= s.height - margin * PosScale

RoomBetweenWalls(s) ==
    /\ s.width >= 2 * margin * PosScale
    /\ s.height >= 2 * margin * PosScale

(* C1, as amended: after every step() of a simulator whose width and       *)
(* height are at least two margins (10), whatever calls came before, every *)
(* particle, the splash particles spawned in that step included, lies      *)
(* within [margin, width - margin] x [margin, height - margin].            *)
C1_ContainedAfterStep ==
    (lastOp = "step" /\ RoomBetweenWalls(sim)) =>
        \A i \in DOMAIN sim.particles : InsideWalls(sim.particles[i], sim)

(* C1 as stated: the same after every step(), whatever the size.           *)
C1_ContainedWhateverSize ==
    lastOp = "step" =>
        \A i \in DOMAIN sim.particles : InsideWalls(sim.particles[i], sim)

(* A step in which a particle hit a wall has spawned splash particles: no  *)
(* call has counted them and they have not aged.                           *)
C1_SpawnedInStep ==
    /\ lastOp = "step"
    /\ RoomBetweenWalls(sim)
    /\ \E i \in DOMAIN sim.particles :
          /\ sim.particles[i].isSplash
          /\ sim.particles[i].seen = 0
          /\ sim.particles[i].age = 0

----------------------------------------------------------------------------
(* The life of a splash particle.  lifespan is in 1/RandMod steps and seen  *)
(* counts the step() calls that found the particle in the collection.      *)

SplashGone == {r \in removed : r.by = "step" /\ r.isSplash}

(* C2, as amended: a splash particle inserted with lifespan L, unless the  *)
(* component's resize handling discards it first, is in the collection for *)
(* exactly ceil(L) step() calls: it is present after each of the first     *)
(* ceil(L) - 1, the ceil(L)-th removes it, and it is absent ever after     *)
(* (L itself only when L is a whole number).                               *)
C2_PresentForLifespanRoundedUp ==
    /\ \A r \in SplashGone :
          /\ r.seen * RandMod >= r.lifespan
          /\ (r.seen - 1) * RandMod < r.lifespan
    /\ \A i \in DOMAIN sim.particles :
          sim.particles[i].isSplash =>
              sim.particles[i].seen * RandMod < sim.particles[i].lifespan
    /\ \A r \in removed : \A i \in DOMAIN sim.particles : sim.particles[i].id # r.id

(* C2 as stated: the step() call that removes the particle is the L-th.    *)
C2_PresentForExactlyLifespan ==
    \A r \in SplashGone : r.seen * RandMod = r.lifespan

(* A splash particle whose lifespan is not a whole number of steps has     *)
(* lived and been removed.                                                 *)
C2_FractionalLifeEnded ==
    \E r \in SplashGone : r.lifespan % RandMod # 0 /\ r.seen > TicksPerSecond

(* C8, as amended: the simulator's own operations destroy a particle only  *)
(* in the cleanup pass of step(), and only a splash particle with          *)
(* age >= lifespan; no public mutator and no pointer handler removes one.  *)
(* The component's resize handling (updateSize, which calls                *)
(* initializeWater) discards the collection.                               *)
C8_DestroyedByCleanupOrRefill ==
    \A r \in removed :
        \/ r.by = "step" /\ r.isSplash /\ r.age * RandMod >= r.lifespan
        \/ r.by = "updateSize"

(* C8 as stated: every particle that left the collection left it in the    *)
(* cleanup pass, a splash particle with age >= lifespan.                   *)
C8_DestroyedByCleanupOnly ==
    \A r \in removed : r.by = "step" /\ r.isSplash /\ r.age * RandMod >= r.lifespan

(* The cleanup has removed a splash particle at the end of its life, in a  *)
(* run with two other calls on the simulator.                              *)
C8_CleanupAtEndOfLife ==
    /\ fuel.ops = 0
    /\ \E r \in removed :
          r.by = "step" /\ r.isSplash /\ r.age >= TicksPerSecond

(* C10: from one step() to the next, the alpha of every splash particle    *)
(* that stays in the collection strictly decreases, and it is              *)
(* 0.6 * (1 - age / lifespan) (here in 1/10000, to within one unit).       *)
C10_AlphaStrictlyDecreasing ==
    [][lastOp' = "step" =>
          \A i \in DOMAIN sim.particles : \A j \in DOMAIN sim'.particles :
              (sim.particles[i].isSplash /\ sim'.particles[j].id = sim.particles[i].id) =>
                  /\ sim'.particles[j].a < sim.particles[i].a
                  /\ Abs(sim'.particles[j].a * sim'.particles[j].lifespan
                         - 6000 * (sim'.particles[j].lifespan
                                     - sim'.particles[j].age * RandMod))
                        < sim'.particles[j].lifespan]_vars

(* A splash particle near the end of its life, its alpha still positive.   *)
C10_FadedLate ==
    /\ lastOp = "step"
    /\ \E i \in DOMAIN sim.particles :
          /\ sim.particles[i].isSplash
          /\ sim.particles[i].age = TicksPerSecond - 1
          /\ sim.particles[i].a > 0
          /\ sim.particles[i].a < 200

----------------------------------------------------------------------------
(* What step() and createSplash leave alone.                               *)

NonSplash(s) == {s.particles[i].id : i \in {j \in DOMAIN s.particles : ~s.particles[j].isSplash}}

(* C3: step() never removes a non-splash particle, whatever calls come     *)
(* between steps: the non-splash particles after a step are those before   *)
(* it.                                                                     *)
C3_NonSplashSurviveStep ==
    [][lastOp' = "step" => NonSplash(sim') = NonSplash(sim)]_vars

(* A non-splash particle has gone through two steps with a call between    *)
(* them.                                                                   *)
C3_SurvivedTwoSteps ==
    /\ lastOp = "step"
    /\ fuel.step = 0
    /\ \E i \in DOMAIN sim.particles :
          ~sim.particles[i].isSplash /\ sim.particles[i].seen = 2
    /\ \E i \in DOMAIN sim.particles : sim.particles[i].seen = 1

(* A call createSplash(x, y, intensity) between this state and the next:   *)
(* the particles counted by the formulas appended, splash and of age 0,    *)
(* the particles present unchanged, one wave origin added at the end of    *)
(* the list (which loses its first entry when it was full).                *)
SplashAdded(x, y, intensity) ==
    LET before == Len(sim.particles)
        count == (12 * MILLI + 18 * intensity) \div MILLI
                   + (6 * MILLI + 8 * intensity) \div MILLI
        waves == Len(sim'.waveOrigins)
    IN  /\ Len(sim'.particles) = before + count
        /\ SubSeq(sim'.particles, 1, before) = sim.particles
        /\ \A j \in before + 1 .. before + count :
              sim'.particles[j].isSplash /\ sim'.particles[j].age = 0
        /\ waves = Min(Len(sim.waveOrigins) + 1, WaveCapacity)
        /\ sim'.waveOrigins[waves] =
              [x |-> x, y |-> y, strength |-> 2 * intensity, time |-> sim.time]
        /\ SubSeq(sim'.waveOrigins, 1, waves - 1) =
              IF Len(sim.waveOrigins) < WaveCapacity
              THEN sim.waveOrigins ELSE Tail(sim.waveOrigins)

(* C9: createSplash(x, y, intensity) appends floor(12 + 18*intensity)      *)
(* primary plus floor(6 + 8*intensity) secondary particles, each a splash  *)
(* particle of age 0, registers exactly one wave origin and changes no     *)
(* particle that was there; so does the call setMouseDown(true) makes,     *)
(* with intensity 0.8 at the pointer.                                      *)
C9_SplashAppends ==
    [][/\ lastOp' = "createSplash" =>
             \E pos \in SplashPoints, intensity \in SplashIntensities :
                 SplashAdded(pos.x, pos.y, intensity)
       /\ (lastOp' = "setMouseDown" /\ sim'.isMouseDown) =>
             SplashAdded(sim.mousePos.x, sim.mousePos.y, 800)]_vars

(* createSplash has been called on a simulator that held a particle and a  *)
(* wave origin.                                                            *)
C9_SplashOverParticles ==
    /\ lastOp = "createSplash"
    /\ \E i \in DOMAIN sim.particles : ~sim.particles[i].isSplash
    /\ Len(sim.waveOrigins) >= 2

----------------------------------------------------------------------------
(* The wave origins.                                                       *)

(* C4: whatever the calls of createSplash, createRipple, setMouseDown,     *)
(* addWaveOrigin and step(), steps in which several particles hit a wall   *)
(* included, the list of wave origins never holds more than 20 entries.    *)
C4_WaveOriginsWithinCapacity == Len(sim.waveOrigins) <= WaveCapacity

(* A step in which two particles hit a wall has left the list full, its    *)
(* last entries pushed in that step.                                       *)
C4_FullAfterImpacts ==
    /\ lastOp = "step"
    /\ Len(sim.waveOrigins) = WaveCapacity
    /\ sim.waveOrigins[WaveCapacity].time = sim.time
    /\ sim.waveOrigins[WaveCapacity - 2].time = sim.time

(* C5: in every reachable state, no wave origin in the list is 3 simulated *)
(* seconds old or older (ages in steps of 1/60 s).                         *)
C5_NoOriginPastHorizon ==
    \A i \in DOMAIN sim.waveOrigins :
        sim.time - sim.waveOrigins[i].time < WaveHorizonSeconds * TicksPerSecond

(* The step that brought the oldest origins to 3 seconds has run: the      *)
(* origins one frame younger are still in the list.                        *)
C5_YoungerOriginsKept ==
    /\ lastOp = "step"
    /\ sim.time = WaveHorizonSeconds * TicksPerSecond
    /\ \E i \in DOMAIN sim.waveOrigins : sim.waveOrigins[i].time = 1

Ordered(waves) ==
    \A i \in DOMAIN waves : \A j \in DOMAIN waves :
        i <= j => waves[i].time <= waves[j].time

(* The origins of the list that were pushed before the time.               *)
PushedBefore(waves, time) ==
    LET Older(w) == w.time < time IN SelectSeq(waves, Older)

(* The origins of the list that are younger than the horizon at the time.  *)
WithinHorizon(waves, time) ==
    LET Young(w) == time - w.time < WaveHorizonSeconds * TicksPerSecond
    IN  SelectSeq(waves, Young)

(* A call that pushes one wave origin, between this state and the next.    *)
OnePush ==
    \/ lastOp' \in {"addWaveOrigin", "createRipple", "createSplash"}
    \/ lastOp' = "setMouseDown" /\ sim'.isMouseDown

IsSuffix(short, long) ==
    /\ Len(short) <= Len(long)
    /\ short = SubSeq(long, Len(long) - Len(short) + 1, Len(long))

(* C6: the list of wave origins stays ordered by creation time under push, *)
(* age filter and shift; a push past the capacity evicts the entry with    *)
(* the earliest creation time and no other, and the origin just pushed is  *)
(* kept.  In a step the origins that stay are the youngest of those the    *)
(* filter left, and one of these goes only from a full list.               *)
C6_OldestEvictedFirst ==
    [][/\ Ordered(sim'.waveOrigins)
       /\ OnePush =>
             /\ sim'.waveOrigins[Len(sim'.waveOrigins)].time = sim.time
             /\ IF Len(sim.waveOrigins) < WaveCapacity
                THEN SubSeq(sim'.waveOrigins, 1, Len(sim.waveOrigins)) = sim.waveOrigins
                ELSE /\ SubSeq(sim'.waveOrigins, 1, WaveCapacity - 1) = Tail(sim.waveOrigins)
                     /\ \A i \in DOMAIN sim.waveOrigins :
                           Head(sim.waveOrigins).time <= sim.waveOrigins[i].time
       /\ lastOp' = "step" =>
             LET old == WithinHorizon(sim.waveOrigins, sim'.time)
                 kept == PushedBefore(sim'.waveOrigins, sim'.time)
             IN  /\ IsSuffix(kept, old)
                 /\ Len(kept) < Len(old) => Len(sim'.waveOrigins) = WaveCapacity
                 /\ Len(sim'.waveOrigins) > Len(kept) =>
                       sim'.waveOrigins[Len(sim'.waveOrigins)].time = sim'.time]_vars

(* A push into the full list has evicted the last of the two oldest        *)
(* origins: the list is full, led by an origin pushed after the first      *)
(* frame, and ends with the origin just pushed.                            *)
C6_EvictedTheOldest ==
    /\ lastOp \in {"addWaveOrigin", "createRipple", "createSplash"}
    /\ Len(sim.waveOrigins) = WaveCapacity
    /\ sim.waveOrigins[1].time = 1
    /\ sim.waveOrigins[WaveCapacity].time = AgedFrames

----------------------------------------------------------------------------
(* The neighbour query.                                                    *)

(* The particles in the grid.                                              *)
Inserted(grid) == UNION {{grid[k][i] : i \in DOMAIN grid[k]} : k \in DOMAIN grid}

Returned(result) == {result[i] : i \in DOMAIN result}

WithinRadius(p, center, radius) ==
    (p.pos.x - center.x) * (p.pos.x - center.x)
      + (p.pos.y - center.y) * (p.pos.y - center.y) <= radius * radius

(* C7: for any particles inserted (negative coordinates and positions on   *)
(* cell borders included), any centre and any radius up to the cell size,  *)
(* getNearby(centre, radius) returns every inserted particle whose         *)
(* distance to the centre is at most the radius.                           *)
C7_NearbyHoldsAllWithinRadius ==
    (lastOp = "getNearby" /\ nearby.radius <= cellSize) =>
        \A i \in DOMAIN sim.particles :
            ( /\ sim.particles[i].id \in Inserted(sim.spatialGrid)
              /\ WithinRadius(sim.particles[i], nearby.pos, nearby.radius) )
            => sim.particles[i].id \in Returned(nearby.result)

(* A query has returned a particle of another cell than the centre's, at a *)
(* negative coordinate and within the radius.                              *)
C7_FoundAcrossBorder ==
    /\ lastOp = "getNearby"
    /\ nearby.radius <= cellSize
    /\ \E i \in DOMAIN sim.particles :
          /\ sim.particles[i].id \in Returned(nearby.result)
          /\ WithinRadius(sim.particles[i], nearby.pos, nearby.radius)
          /\ sim.particles[i].pos.x < 0
          /\ hash(sim.particles[i].pos.x, sim.particles[i].pos.y)
                # hash(nearby.pos.x, nearby.pos.y)


----------------------------------------------------------------------------
(* The chain reaction at the left wall.                                    *)

(* The only particle of the simulator, non-splash, as the boundary         *)
(* resolution of the next step finds it.                                   *)
LoneWater == Len(sim.particles) = 1 /\ ~sim.particles[1].isSplash

Arriving == StepBeforeBoundaries(sim).particles[1]

HardLeftImpact ==
    /\ LoneWater
    /\ Arriving.pos.x < margin * PosScale
    /\ Abs(Arriving.vel.x) > 200

(* A wave origin of this step at the place where the boundary resolution   *)
(* has left the particle of index 1.                                       *)
WaveAtImpact(s) ==
    \E k \in DOMAIN s.waveOrigins :
        /\ s.waveOrigins[k].x = s.particles[1].pos.x
        /\ s.waveOrigins[k].y = s.particles[1].pos.y
        /\ s.waveOrigins[k].time = s.time

(* C11: when the only particle, non-splash, is clamped at the left wall in *)
(* a step with |vel.x| > 200 before the reflection, the step registers a   *)
(* new wave origin at the impact point, whatever Math.random() returns: so *)
(* there is an outcome of the random choice with a new wave origin, and    *)
(* one (a draw below 0.4) with a splash burst as well.                     *)
C11_HardImpactRegistersWave ==
    [][(lastOp' = "step" /\ HardLeftImpact) =>
          /\ Len(sim'.waveOrigins) > 0
          /\ Len(sim'.particles) >= 1
          /\ sim'.particles[1].id = sim.particles[1].id
          /\ WaveAtImpact(sim')]_vars

(* A hard impact at the left wall has registered its wave origin and has   *)
(* spawned a splash burst.                                                 *)
C11_ImpactWithSplash ==
    /\ lastOp = "step"
    /\ Len(sim.particles) > 1
    /\ ~sim.particles[1].isSplash
    /\ sim.particles[1].prevPos.x < margin * PosScale
    /\ sim.particles[1].vel.x > 80
    /\ WaveAtImpact(sim)
    /\ \A i \in 2..Len(sim.particles) :
          sim.particles[i].isSplash /\ sim.particles[i].age = 0


----------------------------------------------------------------------------
(* createWaterBlock and the step after it.                                 *)

(* a / b rounded up, b > 0.                                                *)
CeilDiv(a, b) == -((-a) \div b)

BlockCount(b) == CeilDiv(b.w, b.spacing) * CeilDiv(b.h, b.spacing)

InRectangle(p, b) ==
    /\ b.x <= p.pos.x /\ p.pos.x <= b.x + b.w
    /\ b.y <= p.pos.y /\ p.pos.y <= b.y + b.h

(* The particle lies less than 2 px right of and below a point of the      *)
(* block's grid.                                                           *)
AtJitteredGridPoint(p, b) ==
    \E i \in 0..(CeilDiv(b.w, b.spacing) - 1), j \in 0..(CeilDiv(b.h, b.spacing) - 1) :
        /\ b.x + i * b.spacing <= p.pos.x /\ p.pos.x < b.x + i * b.spacing + Px(2)
        /\ b.y + j * b.spacing <= p.pos.y /\ p.pos.y < b.y + j * b.spacing + Px(2)

(* The transition is the call createWaterBlock(b).                         *)
BlockCalled(b) ==
    /\ lastOp' = "createWaterBlock"
    /\ sim' = createWaterBlock(sim, b.x, b.y, b.w, b.h, b.spacing)

(* The simulator is a new one after the call createWaterBlock(b).          *)
BlockOnly(b) ==
    /\ lastOp = "createWaterBlock"
    /\ \E size \in WorldSizes, seed \in BlockSeeds :
          sim = createWaterBlock(FluidSimulator(size.x, size.y, seed),
                                 b.x, b.y, b.w, b.h, b.spacing)

(* C12, amended: createWaterBlock(x, y, w, h, spacing) with spacing > 0    *)
(* adds exactly ceil(w/spacing) * ceil(h/spacing) particles, all           *)
(* non-splash, each less than 2 px right of and below a point of the grid  *)
(* of the rectangle; the step() that follows keeps every one of them,      *)
(* non-splash, in the same order.                                          *)
C12_BlockCountAndJitter ==
    [][\A b \in BlockInputs :
          /\ BlockCalled(b) =>
                /\ Len(sim'.particles) = Len(sim.particles) + BlockCount(b)
                /\ \A i \in 1..Len(sim.particles) : sim'.particles[i] = sim.particles[i]
                /\ \A i \in (Len(sim.particles) + 1)..Len(sim'.particles) :
                      /\ ~sim'.particles[i].isSplash
                      /\ AtJitteredGridPoint(sim'.particles[i], b)
          /\ (BlockOnly(b) /\ lastOp' = "step") =>
                /\ Len(sim'.particles) >= BlockCount(b)
                /\ \A i \in 1..BlockCount(b) :
                      /\ sim'.particles[i].id = sim.particles[i].id
                      /\ ~sim'.particles[i].isSplash]_vars

(* C12 as stated: after createWaterBlock and one step() there are exactly  *)
(* ceil(w/spacing) * ceil(h/spacing) particles, all non-splash, all inside *)
(* the source rectangle.                                                   *)
C12_BlockInsideRectangleAfterStep ==
    [][\A b \in BlockInputs :
          (BlockOnly(b) /\ lastOp' = "step") =>
              /\ Len(sim'.particles) = BlockCount(b)
              /\ \A i \in DOMAIN sim'.particles :
                    /\ ~sim'.particles[i].isSplash
                    /\ InRectangle(sim'.particles[i], b)]_vars

(* A block whose spacing does not divide its extent has been created and   *)
(* stepped: six particles for 25 x 15 px at a spacing of 10 px.            *)
C12_PartialSpacingStepped ==
    /\ lastOp = "step"
    /\ Len(sim.particles) = 6
    /\ \A i \in DOMAIN sim.particles : ~sim.particles[i].isSplash /\ sim.particles[i].seen = 1


----------------------------------------------------------------------------
(* The pointer's button.                                                   *)

(* The fields of the simulator other than the particles, the wave origins, *)
(* the button and the random draws are the same in s and t.                *)
SameSetting(s, t) ==
    /\ s.width = t.width /\ s.height = t.height
    /\ s.time = t.time /\ s.wavePhases = t.wavePhases
    /\ s.mousePos = t.mousePos /\ s.prevMousePos = t.prevMousePos
    /\ s.mouseVel = t.mouseVel

(* C13: setMouseDown(true) sets the flag and makes one splash of intensity *)
(* 0.8 at the pointer's position, which appends splash particles and       *)
(* registers one wave origin; setMouseDown(false) clears the flag and      *)
(* changes nothing else, particles and wave origins included.              *)
C13_PressSplashesReleaseClears ==
    [][lastOp' = "setMouseDown" =>
          IF sim'.isMouseDown
          THEN /\ SplashAdded(sim.mousePos.x, sim.mousePos.y, 800)
               /\ Len(sim'.particles) > Len(sim.particles)
               /\ SameSetting(sim, sim')
          ELSE sim' = [sim EXCEPT !.isMouseDown = FALSE]]_vars

(* The button has been pressed and released: the splash of the press is    *)
(* there, the flag is clear.                                               *)
C13_ReleasedAfterPress ==
    /\ lastOp = "setMouseDown"
    /\ ~sim.isMouseDown
    /\ Len(sim.particles) = 38
    /\ Len(sim.waveOrigins) = 1
    /\ sim.waveOrigins[1].x = sim.mousePos.x
    /\ sim.waveOrigins[1].y = sim.mousePos.y


----------------------------------------------------------------------------
(* createRipple.                                                           *)

(* 0.1 < d < 80 * strength for the distance d of the particle to (x, y),   *)
(* on the squares: in position units 10 * d > PosScale and                 *)
(* 5 * d < 24 * strength, the strength being in thousandths.               *)
InRippleRange(p, x, y, strength) ==
    LET d2 == LengthSq(VSub(p.pos, Vec2(x, y)))
    IN  /\ 100 * d2 > PosScale * PosScale
        /\ 25 * d2 < (24 * strength) * (24 * strength)

(* The transition is the call createRipple(x, y, strength) as the claim    *)
(* describes it.                                                           *)
Rippled(x, y, strength) ==
    /\ Len(sim'.particles) = Len(sim.particles)
    /\ \A i \in DOMAIN sim.particles :
          /\ sim'.particles[i] = [sim.particles[i] EXCEPT !.vel = sim'.particles[i].vel]
          /\ sim'.particles[i].vel # sim.particles[i].vel =>
                InRippleRange(sim.particles[i], x, y, strength)
    /\ Len(sim'.waveOrigins) = Len(sim.waveOrigins) + 1
    /\ SubSeq(sim'.waveOrigins, 1, Len(sim.waveOrigins)) = sim.waveOrigins
    /\ sim'.waveOrigins[Len(sim'.waveOrigins)] =
          [x |-> x, y |-> y, strength |-> strength, time |-> sim.time]
    /\ sim' = [sim EXCEPT !.particles = sim'.particles, !.waveOrigins = sim'.waveOrigins]

(* C14: createRipple(x, y, strength) changes the velocity of particles at  *)
(* a distance d with 0.1 < d < 80 * strength only, changes no position, no *)
(* other field of any particle and not their number, and registers exactly *)
(* one wave origin at (x, y) with the strength given.                      *)
C14_RippleKicksInRangeOnly ==
    [][lastOp' = "createRipple" =>
          \E pos \in RippleCentres, strength \in RippleInputs :
              Rippled(pos.x, pos.y, strength)]_vars

(* A ripple of radius 24 px has kicked the particle 8 px from its centre   *)
(* and has left alone the particle 28 px from it.                          *)
C14_KickedNearLeftFar ==
    /\ lastOp = "createRipple"
    /\ Len(sim.waveOrigins) = 1 /\ sim.waveOrigins[1].strength = 300
    /\ \E i \in DOMAIN sim.particles :
          sim.particles[i].pos = Vec2(Px(38), Px(30)) /\ sim.particles[i].vel.x > 0
    /\ \E i \in DOMAIN sim.particles :
          sim.particles[i].pos = Vec2(Px(58), Px(30)) /\ sim.particles[i].vel = Vec2(0, 0)


----------------------------------------------------------------------------
(* The order of the phases of step(), by what each leaves behind.          *)

(* The index of the particle with this id in ps, 0 when there is none.     *)
Where(ps, id) ==
    IF \E i \in DOMAIN ps : ps[i].id = id
    THEN CHOOSE i \in DOMAIN ps : ps[i].id = id
    ELSE 0

(* The number of entries of the grid.                                      *)
RECURSIVE GridEntries(_, _)
GridEntries(grid, keys) ==
    IF keys = {} THEN 0
    ELSE LET k == CHOOSE k \in keys : TRUE
         IN  Len(grid[k]) + GridEntries(grid, keys \ {k})

(* The grid holds the particles ps, each once, in the cell of its          *)
(* position.                                                               *)
IndexOver(grid, ps) ==
    /\ GridEntries(grid, DOMAIN grid) = Len(ps)
    /\ \A i \in DOMAIN ps :
          LET key == hash(ps[i].pos.x, ps[i].pos.y)
          IN  key \in DOMAIN grid /\ \E k \in DOMAIN grid[key] : grid[key][k] = ps[i].id

(* The particle lies off the four walls of s.                              *)
OffWalls(p, s) ==
    /\ margin * PosScale < p.pos.x /\ p.pos.x < s.width - margin * PosScale
    /\ margin * PosScale < p.pos.y /\ p.pos.y < s.height - margin * PosScale

(* The velocity integrate gives to a particle of velocity vel and          *)
(* acceleration acc, lines 434-441.                                        *)
Advanced(vel, acc) ==
    ClampVel(Vec2(TDiv((vel.x * TicksPerSecond + acc.x) * DampingMilli, TicksPerSecond * MILLI),
                  TDiv((vel.y * TicksPerSecond + acc.y) * DampingMilli, TicksPerSecond * MILLI)))

(* The particle q of after, which was p before the step: integrated once,  *)
(* from where the index recorded it and with the acceleration this step    *)
(* has left in it, aged once, clamped after that, and kept by a cleanup    *)
(* that found it aged.                                                     *)
Stepped(p, q, after) ==
    /\ q.prevPos = p.pos
    /\ OffWalls(q, after) => q.vel = Advanced(p.vel, q.acc) /\ q.pos = VAdd(p.pos, q.vel)
    /\ InsideWalls(q, after)
    /\ q.isSplash => q.age = p.age + 1 /\ q.age * RandMod < q.lifespan
    /\ ~q.isSplash => q.age = p.age

(* The particle q of after, which the boundary resolution has spawned:     *)
(* not integrated, not aged, kept by the cleanup.                          *)
Spawned(q, after) ==
    /\ q.isSplash /\ q.age = 0 /\ q.seen = 0
    /\ q.acc = Vec2(0, 0)
    /\ InsideWalls(q, after)

(* C15: every step() rebuilds the index from the positions it finds,       *)
(* computes density, pressure and forces, perturbs (the time advances by   *)
(* one tick), integrates with the acceleration so obtained, resolves the   *)
(* boundaries on the integrated positions and cleans up last, each once:   *)
(* a particle is removed exactly when the age this step gave it has        *)
(* reached its lifespan, and the splashes the boundary resolution spawned  *)
(* are kept, at age 0.                                                     *)
C15_PhasesInOrder ==
    [][(lastOp' = "step" /\ RoomBetweenWalls(sim')) =>
          /\ sim'.time = sim.time + 1
          /\ IndexOver(sim'.spatialGrid, sim.particles)
          /\ \A j \in DOMAIN sim'.particles :
                LET i == Where(sim.particles, sim'.particles[j].id)
                IN  IF i = 0 THEN Spawned(sim'.particles[j], sim')
                    ELSE Stepped(sim.particles[i], sim'.particles[j], sim')
          /\ \A i \in DOMAIN sim.particles :
                Where(sim'.particles, sim.particles[i].id) = 0 =>
                    /\ sim.particles[i].isSplash
                    /\ (sim.particles[i].age + 1) * RandMod >= sim.particles[i].lifespan]_vars

(* A step has aged two splash particles to 60, has removed the one whose   *)
(* lifespan that age has reached and has kept the other.                   *)
C15_RemovedAtTheAgeReached ==
    /\ lastOp = "step"
    /\ \E r \in removed :
          /\ r.by = "step" /\ r.isSplash
          /\ r.age = sim.time
          /\ r.age * RandMod >= r.lifespan /\ (r.age - 1) * RandMod < r.lifespan
    /\ \E i \in DOMAIN sim.particles :
          sim.particles[i].isSplash /\ sim.particles[i].age = sim.time


----------------------------------------------------------------------------
(* The drag of the pointer.                                                *)

(* The only particle is a splash particle straight below or above the      *)
(* pointer, within the force radius, and the pointer travels along x: the  *)
(* push away from the pointer is along y, the drag along x, and nothing    *)
(* else acts along x.                                                      *)
ProbeUnderPointer ==
    /\ Len(sim.particles) = 1
    /\ sim.particles[1].isSplash
    /\ sim.particles[1].pos.x = sim.mousePos.x
    /\ sim.mouseVel.y = 0
    /\ 10 * Abs(sim.particles[1].pos.y - sim.mousePos.y) > PosScale
    /\ Abs(sim.particles[1].pos.y - sim.mousePos.y) < mouseForceRadius * PosScale

PointerSpeed == Abs(sim.mouseVel.x)

(* The probe as the same step leaves it when the button is in the other    *)
(* state.                                                                  *)
ProbeOtherButton ==
    StepBeforeBoundaries([sim EXCEPT !.isMouseDown = ~sim.isMouseDown]).particles[1]

(* C16, amended: a particle within the force radius receives the drag      *)
(* term, in the pointer's direction of travel, if and only if the pointer  *)
(* speed exceeds 10 and the button is held or the speed exceeds 50; so the *)
(* drag is the same whether the button is held or released for every       *)
(* speed but those above 10 and at most 50.                                *)
C16_DragByButtonAndSpeed ==
    [][(lastOp' = "step" /\ ProbeUnderPointer) =>
          LET acc == sim'.particles[1].acc
              dragged == PointerSpeed > 10 /\ (sim.isMouseDown \/ PointerSpeed > 50)
          IN  /\ dragged => acc.x # 0 /\ (acc.x > 0 <=> sim.mouseVel.x > 0)
              /\ ~dragged => acc.x = 0
              /\ (PointerSpeed > 50 \/ PointerSpeed <= 10) => acc.x = ProbeOtherButton.acc.x]_vars

(* C16 as stated: for the same pointer position, pointer velocity and      *)
(* particle position, the particle receives the drag term with the button  *)
(* held if and only if it receives it with the button released.            *)
C16_DragWhateverButton ==
    [][(lastOp' = "step" /\ ProbeUnderPointer) =>
          (sim'.particles[1].acc.x # 0 <=> ProbeOtherButton.acc.x # 0)]_vars

(* The pointer has passed over the probe at 20 px/s with the button held,  *)
(* and the step has dragged the probe.                                     *)
C16_DraggedSlowlyWhileHeld ==
    /\ lastOp = "step"
    /\ Len(sim.particles) = 1
    /\ sim.isMouseDown
    /\ sim.mouseVel = Vec2(20, 0)
    /\ sim.particles[1].prevPos.x = sim.mousePos.x
    /\ sim.particles[1].acc.x > 0


----------------------------------------------------------------------------
(* resize.                                                                 *)

(* The particle lies in the rectangle of s, [0, width] x [0, height].      *)
InRectangleOf(p, s) ==
    /\ 0 <= p.pos.x /\ p.pos.x <= s.width
    /\ 0 <= p.pos.y /\ p.pos.y <= s.height

----------------------------------------------------------------------------
(* poly6Kernel.                                                            *)

(* C18: poly6Kernel(r2) is 0 for every r2 >= H^2; for r2 in [0, H^2) it is *)
(* strictly positive, and of two such arguments the larger has the         *)
(* strictly smaller value, so that the value at 0 is the greatest.         *)
C18_Poly6PositiveDecreasing ==
    [][lastOp' = "poly6Kernel" =>
          /\ kernel'.r2 >= H2 => kernel'.w = 0
          /\ kernel'.r2 < H2 => kernel'.w > 0 /\ kernel'.w <= poly6Kernel(0)
          /\ (lastOp = "poly6Kernel" /\ kernel.r2 < kernel'.r2 /\ kernel'.r2 < H2) =>
                kernel'.w < kernel.w]_vars

(* The kernel has been evaluated 1 px^2 below H^2: its value is positive   *)
(* and below the value 2 px^2 below H^2.                                   *)
C18_PositiveJustBelowH2 ==
    /\ lastOp = "poly6Kernel"
    /\ kernel.r2 = H2 - 1
    /\ kernel.w > 0
    /\ kernel.w < poly6Kernel(H2 - 2)


----------------------------------------------------------------------------
(* The animation loop of the component.                                    *)

(* C19: every animation frame of the component calls step() once and then *)
(* renders the particles that step left, and leaves one frame requested,   *)
(* whose handle animationRef holds; the listeners run between frames,      *)
(* they neither step nor render; once the cleanup of the effect has        *)
(* cancelled the frame, nothing steps the simulator or changes it any      *)
(* more.                                                                   *)
C19_OneStepPerFrameNoneAfterCleanup ==
    [][/\ lastOp' = "animate" =>
             /\ view.listening
             /\ sim'.time = sim.time + 1
             /\ view'.drawn = sim'.particles
             /\ view'.frames = {view'.animationRef}
       /\ lastOp' # "animate" => sim'.time = sim.time /\ view'.drawn = view.drawn
       /\ ~view.listening => sim' = sim /\ view'.frames = {}]_vars

(* The cleanup has run after two frames or more, with frames and events    *)
(* still to come from the browser: no frame is requested any more.         *)
C19_CancelledWithFramesLeft ==
    /\ lastOp = "cleanup"
    /\ ~view.listening
    /\ view.frames = {}
    /\ sim.time >= 2
    /\ fuel.step > 0 /\ fuel.ops > 0
    /\ view.drawn = sim.particles


----------------------------------------------------------------------------
(* The reflection at the walls.                                            *)

(* v * -BOUNCE.                                                            *)
Bounced(v) == TDiv(v * (-BounceTenths), 10)

(* The coordinate c lies beyond one of the two walls of an axis of this    *)
(* extent.                                                                 *)
BeyondWall(c, extent) == c < margin * PosScale \/ c > extent - margin * PosScale

(* The particle q is what the boundary resolution of s makes of p: on each *)
(* axis, beyond a wall the coordinate is set on that wall and the velocity *)
(* component is multiplied by -BOUNCE, otherwise both are kept.            *)
Reflected(p, q, s) ==
    LET lo == margin * PosScale
    IN  /\ q.pos.x = Max(lo, Min(s.width - lo, p.pos.x))
        /\ q.pos.y = Max(lo, Min(s.height - lo, p.pos.y))
        /\ q.vel.x = IF BeyondWall(p.pos.x, s.width) THEN Bounced(p.vel.x) ELSE p.vel.x
        /\ q.vel.y = IF BeyondWall(p.pos.y, s.height) THEN Bounced(p.vel.y) ELSE p.vel.y
        /\ (~BeyondWall(p.pos.x, s.width) /\ ~BeyondWall(p.pos.y, s.height)) =>
              q.pos = p.pos /\ q.vel = p.vel

(* C20: in the boundary resolution of a step a clamp at a wall multiplies  *)
(* the velocity component of that axis by -BOUNCE (-0.4) and leaves the    *)
(* component of the other axis as it was; a particle beyond no wall keeps  *)
(* its position and its velocity.  The simulator has room between its      *)
(* walls, so that an axis has one clamp at most.                           *)
C20_ClampReflectsItsAxisOnly ==
    [][(lastOp' = "step" /\ RoomBetweenWalls(sim)) =>
          LET arriving == StepBeforeBoundaries(sim).particles
          IN  \A i \in DOMAIN arriving :
                LET j == Where(sim'.particles, arriving[i].id)
                IN  j # 0 /\ Reflected(arriving[i], sim'.particles[j], sim)]_vars

(* A step has clamped a particle at the top wall alone, and another at the *)
(* left wall and the top wall both.                                        *)
C20_ClampedAtWallAndCorner ==
    /\ lastOp = "step"
    /\ \E i \in DOMAIN sim.particles :
          /\ sim.particles[i].pos = Vec2(margin * PosScale, margin * PosScale)
          /\ sim.particles[i].vel.x > 0 /\ sim.particles[i].vel.y > 0
    /\ \E i \in DOMAIN sim.particles :
          /\ sim.particles[i].pos.y = margin * PosScale
          /\ sim.particles[i].pos.x = sim.particles[i].prevPos.x + sim.particles[i].vel.x
          /\ sim.particles[i].vel.y > 0


----------------------------------------------------------------------------
(* The velocity ceiling of integrate.                                      *)

(* The square of the distance between two positions, in units of           *)
(* 1/PosScale px: a velocity of v px/s moves a particle by v units in one  *)
(* step of DT = 1/TicksPerSecond s.                                        *)
Displaced(p) == LengthSq(VSub(p.pos, p.prevPos))

(* C21: after every step() every particle that the step integrated (every  *)
(* particle that was there before it and is still there) has a speed of    *)
(* at most maxVel = 500, and before the boundaries were resolved every     *)
(* particle had that and was no further than maxVel * DT from where the    *)
(* step found it.                                                          *)
C21_VelocityCeiling ==
    [][lastOp' = "step" =>
          /\ \A j \in DOMAIN sim'.particles :
                Where(sim.particles, sim'.particles[j].id) # 0 =>
                    LengthSq(sim'.particles[j].vel) <= maxVel * maxVel
          /\ LET mid == StepBeforeBoundaries(sim)
             IN  \A i \in DOMAIN mid.particles :
                    /\ LengthSq(mid.particles[i].vel) <= maxVel * maxVel
                    /\ Displaced(mid.particles[i]) <= maxVel * maxVel
                    /\ mid.particles[i].prevPos = sim.particles[i].pos]_vars

(* A step has left a particle off the walls at the ceiling: the sum of its *)
(* velocity and of the acceleration the step has left in it is beyond the  *)
(* ceiling, and its speed is the ceiling to within the rounding.           *)
C21_HeldAtCeiling ==
    /\ lastOp = "step"
    /\ \E i \in DOMAIN sim.particles :
          LET p == sim.particles[i]
          IN  /\ p.seen > 0
              /\ OffWalls(p, sim)
              /\ Abs(p.acc.x) > maxVel * TicksPerSecond \/ Abs(p.acc.y) > maxVel * TicksPerSecond
              /\ LengthSq(p.vel) > (maxVel - 3) * (maxVel - 3)
              /\ LengthSq(p.vel) <= maxVel * maxVel


----------------------------------------------------------------------------
(* The density pass.                                                       *)

(* The mass-weighted poly6 sum at the position of pi over the particles lo *)
(* to hi of ps that are within H of it, pi itself included when it is      *)
(* among them.                                                             *)
RECURSIVE DensityOverAll(_, _, _, _)
DensityOverAll(ps, pi, lo, hi) ==
    IF lo > hi THEN 0
    ELSE IF lo = hi
         THEN LET d == VSub(ps[lo].pos, pi.pos)
              IN  IF ShorterThan(d, cellSize)
                  THEN ps[lo].mass
                         * Poly6Scaled(poly6Kernel(LengthSq(d) \div (PosScale * PosScale)))
                  ELSE 0
    ELSE DensityOverAll(ps, pi, lo, (lo + hi) \div 2)
           + DensityOverAll(ps, pi, (lo + hi) \div 2 + 1, hi)

(* The simulator with every density and pressure replaced by 0.            *)
DensityForgotten(s) ==
    [s EXCEPT !.particles =
        Materialize([i \in DOMAIN s.particles |->
                        [s.particles[i] EXCEPT !.density = 0, !.pressure = 0]])]

(* What the particle itself adds to its density.                           *)
SelfDensity(p) == (p.mass * Poly6Scaled(poly6Kernel(0))) \div 1000

(* C22: in every step() the density of every particle is the mass-weighted *)
(* poly6 sum over the particles within H of the position the step found it *)
(* at, itself included; it is the same whatever the densities were before  *)
(* the step, it is positive when the force pass divides by it, and the     *)
(* step leaves it in the particle.                                         *)
C22_DensityRecomputedPositive ==
    [][lastOp' = "step" =>
          LET d == computeDensityPressure(RebuildGrid(sim))
              e == computeDensityPressure(RebuildGrid(DensityForgotten(sim)))
          IN  /\ \A i \in DOMAIN sim.particles :
                    /\ d.particles[i].density
                         = DensityOverAll(sim.particles, sim.particles[i],
                                          1, Len(sim.particles)) \div 1000
                    /\ d.particles[i].density >= SelfDensity(sim.particles[i])
                    /\ d.particles[i].density > 0
                    /\ d.particles[i].density = e.particles[i].density
                    /\ d.particles[i].pressure = e.particles[i].pressure
              /\ \A j \in DOMAIN sim'.particles :
                    LET i == Where(sim.particles, sim'.particles[j].id)
                    IN  i # 0 => sim'.particles[j].density = d.particles[i].density]_vars

(* A second step has recomputed the density that the first had left in a   *)
(* particle, and neighbours have added to it.                              *)
C22_RecomputedOverNeighbours ==
    /\ lastOp = "step"
    /\ \E i \in DOMAIN sim.particles :
          /\ sim.particles[i].seen = 2
          /\ sim.particles[i].density > SelfDensity(sim.particles[i])


----------------------------------------------------------------------------
(* The degenerate pairs of the force pass.                                 *)

(* Every particle of ps within H of ps[i] is at the position of ps[i].     *)
OnlyCoincident(ps, i) ==
    \A j \in DOMAIN ps :
        ShorterThan(VSub(ps[j].pos, ps[i].pos), cellSize) => ps[j].pos = ps[i].pos

(* pi and pj are one particle, or two at one position.                     *)
AtNoDistance(pi, pj) == pi.id = pj.id \/ pi.pos = pj.pos

(* C23: in the force pass of every step() a particle paired with itself,   *)
(* and two particles at the same position, add nothing to the pressure,    *)
(* viscosity and surface-tension sums, so that a particle with no other    *)
(* neighbour within H gets the acceleration of gravity alone; and the      *)
(* spiky gradient is the zero vector at every distance of at least H and   *)
(* below 0.0001.                                                           *)
C23_DegeneratePairsAddNothing ==
    [][lastOp' = "step" =>
          LET d == computeDensityPressure(RebuildGrid(sim))
              f == computeForces(d)
          IN  /\ \A i, j \in DOMAIN d.particles :
                    LET pi == d.particles[i]
                        pj == d.particles[j]
                        rVec == VSub(pi.pos, pj.pos)
                        r == Length(rVec)
                    IN  /\ AtNoDistance(pi, pj) => PairForce(pi, pj) = Vec2(0, 0)
                        /\ (r >= cellSize \/ r * 10000 < PosScale) =>
                              spikyGradient(r, rVec) = Vec2(0, 0)
              /\ \A i \in DOMAIN d.particles :
                    OnlyCoincident(d.particles, i) =>
                        /\ f.particles[i].acc = Vec2(0, GRAVITY_Y)
                        /\ d.particles[i].isSplash =>
                              \A k \in DOMAIN sim'.particles :
                                  sim'.particles[k].id = d.particles[i].id =>
                                      sim'.particles[k].acc = Vec2(0, GRAVITY_Y)]_vars

(* A step has run over two particles that were at one position with        *)
(* different velocities, with no other particle within H: they have the    *)
(* acceleration of gravity, and have parted.                               *)
C23_SteppedOverCoincident ==
    /\ lastOp = "step"
    /\ \E i, j \in DOMAIN sim.particles :
          LET p == sim.particles[i]
              q == sim.particles[j]
          IN  /\ p.id # q.id
              /\ p.isSplash /\ q.isSplash
              /\ p.prevPos = q.prevPos
              /\ p.pos # q.pos
              /\ p.acc = Vec2(0, GRAVITY_Y) /\ q.acc = Vec2(0, GRAVITY_Y)


----------------------------------------------------------------------------
(* The perturbation pass and the splash particles.                         *)

(* The simulator of a step after its force pass.                           *)
AfterForces(s) == computeForces(computeDensityPressure(RebuildGrid(s)))

(* The wave origin w is live at the time and the position pos is within    *)
(* the width of its ring.                                                  *)
InRing(w, time, pos) ==
    LET d == Vec2(pos.x - w.x, pos.y - w.y)
        waveRadius == ((time - w.time) * 150 * PosScale) \div TicksPerSecond
    IN  /\ LiveWave(w, time)
        /\ LongerThan(d, PosScale \div 10)
        /\ ShorterThan(d, 40 * PosScale)
        /\ Abs(SafeLength(d) - waveRadius) < 40 * PosScale

(* C24: in every step() the perturbation pass leaves every splash particle *)
(* as the force pass left it, its acceleration included, whatever wave     *)
(* origins are live, and that acceleration is the one the particle has     *)
(* after the step; it changes nothing but the acceleration of the others.  *)
C24_SplashNotPerturbed ==
    [][lastOp' = "step" =>
          LET f == AfterForces(sim)
              a == applyAmbientPerturbation(f)
          IN  /\ \A i \in DOMAIN f.particles :
                    IF f.particles[i].isSplash
                    THEN a.particles[i] = f.particles[i]
                    ELSE a.particles[i] = [f.particles[i] EXCEPT !.acc = a.particles[i].acc]
              /\ \A k \in DOMAIN sim'.particles :
                    LET i == Where(f.particles, sim'.particles[k].id)
                    IN  (i # 0 /\ f.particles[i].isSplash) =>
                            sim'.particles[k].acc = f.particles[i].acc]_vars

(* A step has run over a splash particle within the ring of a live wave    *)
(* origin and over a particle that is not a splash, which it has perturbed. *)
C24_SplashInsideLiveRing ==
    /\ lastOp = "step"
    /\ \E i \in DOMAIN sim.particles, w \in DOMAIN sim.waveOrigins :
          /\ sim.particles[i].isSplash
          /\ sim.particles[i].seen > 0
          /\ InRing(sim.waveOrigins[w], sim.time, sim.particles[i].prevPos)
    /\ \E j \in DOMAIN sim.particles :
          /\ ~sim.particles[j].isSplash
          /\ sim.particles[j].seen > 0
          /\ OnlyCoincident(sim.particles, j)
          /\ sim.particles[j].acc # Vec2(0, GRAVITY_Y)


----------------------------------------------------------------------------
(* The grid at the time of its queries.                                    *)

(* The places <<key, k>> of the grid that refer to the particle id.        *)
Places(grid, id) ==
    {e \in UNION {{<<key, k>> : k \in DOMAIN grid[key]} : key \in DOMAIN grid} :
        grid[e[1]][e[2]] = id}

(* The grid holds the particles ps and nothing else: every entry refers to *)
(* a particle of ps whose position hashes to the entry's bucket, and every *)
(* particle of ps has exactly one entry.                                   *)
HoldsExactly(grid, ps) ==
    /\ \A key \in DOMAIN grid : \A k \in DOMAIN grid[key] :
          \E i \in DOMAIN ps :
              ps[i].id = grid[key][k] /\ hash(ps[i].pos.x, ps[i].pos.y) = key
    /\ \A i \in DOMAIN ps : Cardinality(Places(grid, ps[i].id)) = 1

(* What a query returns refers to particles of ps only, to none twice, and *)
(* to every one within the radius H of the position.                       *)
QueryOver(result, ps, pos) ==
    /\ \A a \in DOMAIN result : \E i \in DOMAIN ps : ps[i].id = result[a]
    /\ \A a, b \in DOMAIN result : result[a] = result[b] => a = b
    /\ \A i \in DOMAIN ps :
          ShorterThan(VSub(ps[i].pos, pos), cellSize) =>
              \E a \in DOMAIN result : result[a] = ps[i].id

(* C25: in every step() the grid that the density pass and the force pass  *)
(* query holds exactly the particles of the collection, each once, in the  *)
(* bucket of floor(x / cellSize), floor(y / cellSize) of the position it   *)
(* has at the time of the query, whatever the grid held before the step;   *)
(* a query returns current particles only, none twice.                     *)
C25_GridCurrentWhenQueried ==
    [][lastOp' = "step" =>
          LET g == RebuildGrid(sim)
              d == computeDensityPressure(g)
          IN  /\ HoldsExactly(g.spatialGrid, g.particles)
              /\ g.particles = sim.particles
              /\ d.spatialGrid = g.spatialGrid
              /\ HoldsExactly(d.spatialGrid, d.particles)
              /\ \A i \in DOMAIN d.particles :
                    QueryOver(getNearby(d.spatialGrid, d.particles[i].pos, cellSize),
                              d.particles, d.particles[i].pos)]_vars

(* A step has run over a refilled collection: the particles that the grid  *)
(* of an earlier step held have been removed since.                        *)
C25_SteppedAfterRefill ==
    /\ lastOp = "step"
    /\ sim.particles # << >>
    /\ \E r \in removed : r.seen > 0 /\ r.by # "step"
    /\ \A k \in DOMAIN sim.particles : sim.particles[k].seen <= 1


----------------------------------------------------------------------------
(* The cleanup at the end of the step.                                     *)

(* The splash particle has reached its lifespan.                           *)
Expired(p) == p.isSplash /\ p.age * RandMod >= p.lifespan

(* C26: after every step() no particle that is a splash and has an age of  *)
(* at least its lifespan is in the collection, and the particles that      *)
(* were there before the step and are there after it are in the order they *)
(* had, ahead of those the step has spawned.                               *)
C26_NoExpiredLeftOrderKept ==
    [][lastOp' = "step" =>
          /\ \A j \in DOMAIN sim'.particles : ~Expired(sim'.particles[j])
          /\ \A j, k \in DOMAIN sim'.particles :
                j < k =>
                    LET a == Where(sim.particles, sim'.particles[j].id)
                        b == Where(sim.particles, sim'.particles[k].id)
                    IN  /\ (a # 0 /\ b # 0) => a < b
                        /\ a = 0 => b = 0]_vars

(* A step has removed a splash particle from between two others, which are *)
(* left in their order.                                                    *)
C26_RemovedFromBetween ==
    /\ lastOp = "step"
    /\ \E r \in removed :
          /\ r.by = "step"
          /\ r.age = sim.time
          /\ \E j, k \in DOMAIN sim.particles :
                /\ j < k
                /\ sim.particles[j].id < r.id
                /\ r.id < sim.particles[k].id


----------------------------------------------------------------------------
(* The chain reactions of the boundary pass.                               *)

(* The number of particles of one burst of createSplash.                   *)
BurstSize(intensity) == NumPrimary(intensity) + NumDroplets(intensity)

(* The particles that the bursts of the particles lo to hi of ps can add:  *)
(* one burst for each that is not a splash and hits a wall at more than    *)
(* 200, of the intensity of its impact.                                    *)
RECURSIVE BurstsDue(_, _, _, _, _)
BurstsDue(ps, width, height, lo, hi) ==
    IF lo > hi THEN 0
    ELSE IF lo = hi
         THEN LET c == ClampParticle(ps[lo], width, height)
              IN  IF c.collided /\ c.impactStrength > 200 /\ ~ps[lo].isSplash
                  THEN BurstSize((c.impactStrength * MILLI) \div 500)
                  ELSE 0
    ELSE BurstsDue(ps, width, height, lo, (lo + hi) \div 2)
           + BurstsDue(ps, width, height, (lo + hi) \div 2 + 1, hi)

(* No particle of ps that is not a splash hits a wall at more than 100.    *)
OnlySplashHitHard(ps, width, height) ==
    \A i \in DOMAIN ps :
        LET c == ClampParticle(ps[i], width, height)
        IN  (c.collided /\ c.impactStrength > 100) => ps[i].isSplash

(* C27: the boundary pass of every step() ends; it leaves the particles it *)
(* found in their places, the particles it has spawned are splash          *)
(* particles at the end of the collection, which the same pass has clamped *)
(* between the walls; there are at most as many of them as one burst for   *)
(* each colliding particle that is not a splash makes; and when splash     *)
(* particles alone hit the walls hard the pass spawns nothing and          *)
(* registers no wave origin.                                               *)
C27_ChainReactionsOneLevelDeep ==
    [][lastOp' = "step" =>
          LET mid == StepBeforeBoundaries(sim)
              aft == handleBoundaries(mid)
              n == Len(mid.particles)
          IN  /\ Len(aft.particles) >= n
              /\ Len(aft.particles) - n <= BurstsDue(mid.particles, mid.width, mid.height, 1, n)
              /\ \A k \in DOMAIN aft.particles :
                    IF k <= n
                    THEN aft.particles[k].id = mid.particles[k].id
                    ELSE /\ aft.particles[k].isSplash
                         /\ aft.particles[k].age = 0
                         /\ RoomBetweenWalls(aft) => InsideWalls(aft.particles[k], aft)
              /\ OnlySplashHitHard(mid.particles, mid.width, mid.height) =>
                    /\ Len(aft.particles) = n
                    /\ aft.waveOrigins = mid.waveOrigins]_vars

(* A step has spawned a burst, and a particle of the burst has itself hit  *)
(* the top wall at more than 200 in the same pass: it lies on the wall     *)
(* with more than 0.4 * 200 of upward speed turned back, and nothing has   *)
(* been spawned for it.                                                    *)
C27_SpawnedHitWallHard ==
    /\ lastOp = "step"
    /\ RoomBetweenWalls(sim)
    /\ \E k \in DOMAIN sim.particles :
          LET p == sim.particles[k]
          IN  /\ p.isSplash /\ p.seen = 0 /\ p.age = 0
              /\ p.pos.y = margin * PosScale
              /\ 10 * p.vel.y > BounceTenths * 200


----------------------------------------------------------------------------
(* The pointer state over the steps.                                       *)

Pointer(s) == <<s.mousePos, s.prevMousePos, s.mouseVel, s.isMouseDown>>

(* The position is within half the radius of the pointer's force, and not  *)
(* on the pointer.                                                         *)
InPointerReach(s, pos) ==
    LET toMouse == VSub(s.mousePos, pos)
    IN  /\ ShorterThan(toMouse, (mouseForceRadius * PosScale) \div 2)
        /\ LongerThan(toMouse, PosScale \div 10)

(* C28: step() leaves mousePos, prevMousePos, mouseVel and isMouseDown as  *)
(* it found them, so that in every step the velocity that the last         *)
(* setMousePos derived drives the drag: where it is above 50, a particle   *)
(* in the pointer's reach gets an acceleration other than the one it would *)
(* get from a pointer at rest.                                             *)
C28_StepKeepsPointerState ==
    [][lastOp' = "step" =>
          /\ Pointer(sim') = Pointer(sim)
          /\ LongerThan(sim.mouseVel, 50) =>
                LET moving == AfterForces(sim)
                    still == AfterForces([sim EXCEPT !.mouseVel = Vec2(0, 0)])
                IN  \A i \in DOMAIN sim.particles :
                        InPointerReach(sim, sim.particles[i].pos) =>
                            moving.particles[i].acc # still.particles[i].acc]_vars

(* Two steps have run over a splash particle in the pointer's reach since  *)
(* the pointer was last sampled: the velocity derived then is still there, *)
(* along both axes, and the particle, added at rest, has got more speed    *)
(* along x than the drag of one step can give along an axis                *)
(* (0.3 * mouseForceStrength * DT * 0.707).                                *)
C28_DraggedInBothSteps ==
    /\ lastOp = "step"
    /\ ~sim.isMouseDown
    /\ LongerThan(sim.mouseVel, 50)
    /\ sim.mouseVel = VSub(sim.mousePos, sim.prevMousePos)
    /\ sim.mouseVel.x > 0 /\ sim.mouseVel.x = sim.mouseVel.y
    /\ \E i \in DOMAIN sim.particles :
          /\ sim.particles[i].isSplash
          /\ sim.particles[i].seen = 2
          /\ InPointerReach(sim, sim.particles[i].prevPos)
          /\ sim.particles[i].vel.x * 10 * TicksPerSecond * MILLI
                > 3 * mouseForceStrength * 707


----------------------------------------------------------------------------
(* The direction of the velocity after a clamp.                            *)

(* The velocity component v of a particle at the coordinate c after the    *)
(* clamps of an axis of this extent: the clamp at the lower wall, then the *)
(* clamp at the upper wall, each multiplying it by -BOUNCE.                *)
TurnedAbout(c, v, extent) ==
    LET lo == margin * PosScale
        v1 == IF c < lo THEN Bounced(v) ELSE v
        c1 == IF c < lo THEN lo ELSE c
    IN  IF c1 > extent - lo THEN Bounced(v1) ELSE v1

(* p, beyond a wall of this axis, is there although it was within the      *)
(* walls before the step integrated it.                                    *)
CameFromWithin(c, before, extent) ==
    /\ BeyondWall(c, extent)
    /\ ~BeyondWall(before, extent)

(* C29, as amended: whenever the boundary resolution of a step() clamps a  *)
(* particle at a wall it multiplies the velocity component of that axis by *)
(* -BOUNCE, whichever way the particle was moving.  After a clamp at one   *)
(* wall the component has changed its sign or is zero; for a particle that *)
(* was within the walls before the step integrated it, it points into the  *)
(* rectangle or is zero.                                                   *)
C29_ClampTurnsVelocityAbout ==
    [][lastOp' = "step" =>
          LET mid == StepBeforeBoundaries(sim)
              aft == handleBoundaries(mid)
              lo == margin * PosScale
          IN  \A k \in DOMAIN mid.particles :
                LET p == mid.particles[k]
                    q == aft.particles[k]
                IN  /\ q.vel.x = TurnedAbout(p.pos.x, p.vel.x, mid.width)
                    /\ q.vel.y = TurnedAbout(p.pos.y, p.vel.y, mid.height)
                    /\ RoomBetweenWalls(mid) =>
                          /\ BeyondWall(p.pos.x, mid.width) => q.vel.x * p.vel.x <= 0
                          /\ BeyondWall(p.pos.y, mid.height) => q.vel.y * p.vel.y <= 0
                          /\ CameFromWithin(p.pos.x, p.prevPos.x, mid.width) =>
                                IF p.pos.x < lo THEN q.vel.x >= 0 ELSE q.vel.x <= 0
                          /\ CameFromWithin(p.pos.y, p.prevPos.y, mid.height) =>
                                IF p.pos.y < lo THEN q.vel.y >= 0 ELSE q.vel.y <= 0]_vars

(* A step has clamped at the left wall a particle that was beyond it and   *)
(* moving away from it, or at the right wall one that a narrower rectangle *)
(* had left beyond it, moving away from it: the particle is on the wall,   *)
(* moving towards it.                                                      *)
C29_TurnedTowardsTheWall ==
    /\ lastOp = "step"
    /\ RoomBetweenWalls(sim)
    /\ \E k \in DOMAIN sim.particles :
          LET p == sim.particles[k]
          IN  \/ /\ p.prevPos.x < margin * PosScale
                 /\ p.pos.x = margin * PosScale
                 /\ p.vel.x < 0
              \/ /\ p.prevPos.x > sim.width - margin * PosScale
                 /\ p.pos.x = sim.width - margin * PosScale
                 /\ p.vel.x > 0

(* C29 as stated: whenever the boundary resolution of a step() clamps a    *)
(* particle at a wall, the component of its velocity along that axis       *)
(* afterwards points into the rectangle or is zero, after any calls of     *)
(* step, addParticle and resize.  Stated for the particles the boundary    *)
(* pass finds beyond a wall, in a rectangle that has room between its      *)
(* walls.                                                                  *)
C29_ClampedVelocityPointsIn ==
    [][(lastOp' = "step" /\ RoomBetweenWalls(sim)) =>
          LET mid == StepBeforeBoundaries(sim)
              aft == handleBoundaries(mid)
              lo == margin * PosScale
          IN  \A k \in DOMAIN mid.particles :
                  /\ mid.particles[k].pos.x < lo => aft.particles[k].vel.x >= 0
                  /\ mid.particles[k].pos.x > mid.width - lo => aft.particles[k].vel.x <= 0
                  /\ mid.particles[k].pos.y < lo => aft.particles[k].vel.y >= 0
                  /\ mid.particles[k].pos.y > mid.height - lo => aft.particles[k].vel.y <= 0]_vars


----------------------------------------------------------------------------
(* The end of every splash particle.                                       *)

(* The splash particle of this id is in the collection.                    *)
SplashPresent(id) ==
    \E i \in DOMAIN sim.particles : sim.particles[i].id = id /\ sim.particles[i].isSplash

(* C30: while step() keeps being called every splash particle is removed   *)
(* in the end, and none is in the collection after the 120th step that     *)
(* followed its creation: its age is the number of those steps, and that   *)
(* is below its lifespan, which is below 120.                              *)
C30_SplashGoneWithin120Steps ==
    /\ \A id \in 1..MaxCleanupOps : SplashPresent(id) ~> ~SplashPresent(id)
    /\ [](\A i \in DOMAIN sim.particles :
              sim.particles[i].isSplash =>
                  /\ sim.particles[i].age = sim.particles[i].seen
                  /\ sim.particles[i].age * RandMod < sim.particles[i].lifespan
                  /\ sim.particles[i].lifespan < 120 * RandMod
                  /\ sim.particles[i].seen < 120)

(* The 120th step after its creation has removed a splash particle that    *)
(* the 119th had left.                                                     *)
C30_RemovedByThe120thStep ==
    \E r \in removed :
        /\ r.by = "step"
        /\ r.isSplash
        /\ r.seen = 120
        /\ r.age = 120
        /\ sim.time = 120

=============================================================================
